---- MODULE Spec2Model ----
(***************************************************************************)
(* Model of the device-transaction automation suite:                       *)
(*   - BasePage.capture_toast_message (pages/base_page.py) and the cached  *)
(*     capture of the TMS full flow (pages/tms_portal/tms_full_flow.py);   *)
(*   - the retry decorator (utils/helpers.py) and BaseAPI (api/base_api.py);*)
(*   - the IPN and DPS clients (api/ipn_api.py, api/dps_api.py);           *)
(*   - MongoHandler (database/mongo_handler.py);                           *)
(*   - generate_imei (utils/helpers.py), the toast mappings of TMSPage     *)
(*     (pages/tms_portal/tms_page.py), TestStateManager                    *)
(*     (tests/state_manager.py) and Config (config/__init__.py);           *)
(*   - DeviceRegistrationPage.complete_registration_with_toast             *)
(*     (pages/admin_portal/device_registration_page.py) and the 9-step     *)
(*     transaction test (tests/test_full_flow.py).                         *)
(*                                                                         *)
(* Python strings are sequences of one-character strings, so that lower(), *)
(* strip(), isdigit(), int() and the substring test are computed and not   *)
(* assumed.  A dict is a record whose DOMAIN is the dict's key set.        *)
(***************************************************************************)
EXTENDS Integers, Sequences, FiniteSets, TLC

\* ------------------------------------------------------------------ bounds

\* Longest text (element text content, expected_text) the page or caller supplies.
MaxTextLen == 2

\* Most text reads that fail (detached element, read timeout) during one call.
MaxReadFails == 1

\* Longest amount string given to the IPN client.
MaxAmountLen == 2

\* Most MongoClient objects one MongoHandler makes.
MaxClients == 6

\* Largest max_attempts given to retry, and largest n given to set_max_retries.
MaxAttempts == 4

\* The errors a TestStateManager is given.
MaxErrors == 2

\* ------------------------------------------------------------- python values

\* Python's None, kept apart from every string (no character is "None").
None == <<"None">>

Chars == {"a", "A", " "}

Whitespace == {" "}

\* Every string of at most MaxTextLen characters.
Strings == UNION {[1..k -> Chars] : k \in 0..MaxTextLen}

\* What Locator.text_content() can return: a string or None.
RawTexts == Strings \cup {None}

\* The expected_text arguments: a string or None (the default).
ExpectedTexts == Strings \cup {None}

\* The timeout arguments (ms): the spec's scenario and the default.
Timeouts == {3000, 10000}

\* str.lower() on one character.
LowerChar(c) ==
    LET upper == << "A", "B", "C", "D", "E", "F", "G", "H", "I", "J", "K", "L", "M",
                "N", "O", "P", "Q", "R", "S", "T", "U", "V", "W", "X", "Y", "Z" >>
        lower == << "a", "b", "c", "d", "e", "f", "g", "h", "i", "j", "k", "l", "m",
                "n", "o", "p", "q", "r", "s", "t", "u", "v", "w", "x", "y", "z" >>
    IN  IF \E i \in 1..Len(upper) : upper[i] = c
        THEN lower[CHOOSE i \in 1..Len(upper) : upper[i] = c]
        ELSE c

\* str.lower()
RECURSIVE Lower(_)
Lower(s) == IF s = <<>> THEN <<>> ELSE <<LowerChar(Head(s))>> \o Lower(Tail(s))

\* str.lstrip()
RECURSIVE LStrip(_)
LStrip(s) == IF s = <<>> THEN <<>>
             ELSE IF Head(s) \in Whitespace THEN LStrip(Tail(s)) ELSE s

\* str.rstrip()
RECURSIVE RStrip(_)
RStrip(s) == IF s = <<>> THEN <<>>
             ELSE IF s[Len(s)] \in Whitespace THEN RStrip(SubSeq(s, 1, Len(s) - 1)) ELSE s

\* str.strip()
Strip(s) == RStrip(LStrip(s))

\* Python's `sub in s` on strings.
Contains(sub, s) == \E i \in 0..(Len(s) - Len(sub)) : SubSeq(s, i + 1, i + Len(sub)) = sub

\* Python truthiness of an optional string: None and "" are falsy.
Truthy(s) == s # None /\ s # <<>>

\* `x or ""`
OrEmpty(s) == IF Truthy(s) THEN s ELSE <<>>

\* No dict returned yet.
NoResult == [pending |-> TRUE]

\* dict.get(key, default)
Get(d, key, default) == IF key \in DOMAIN d THEN d[key] ELSE default

\* A Python value of the API layer: its type, and its content as a str or as
\* an int (the other content is left empty).
PyStr(chars) == [t |-> "str", s |-> chars, n |-> 0]

PyInt(k) == [t |-> "int", s |-> <<>>, n |-> k]

PyNone == [t |-> "NoneType", s |-> <<>>, n |-> 0]

\* bool(v): `not v` is its negation.
PyTruthy(v) ==
    CASE v.t = "str" -> v.s # <<>>
      [] v.t = "int" -> v.n # 0
      [] OTHER       -> FALSE

\* What a call ends with.
Returns(v) == [kind |-> "returned", value |-> v]

Raises(exc) == [kind |-> "raised", value |-> exc]

\* No call was made yet.
NoOutcome == [kind |-> "none", value |-> "none"]

\* What BaseAPI.post gives: it raises (the request failed in every attempt),
\* or it returns the parsed body, a dict or another JSON value.
Reply(raises, type, body) == [raises |-> raises, type |-> type, body |-> body]

\* The body of a reply that is not a dict, and of a call without a request.
NoBody == [status_code |-> PyInt(0)]

NoReply == Reply(FALSE, "none", NoBody)

\* --------------------------------------------------- base_page.py constants

toast_selectors == <<
    ".Toastify__toast",
    ".Toastify__toast--success",
    ".Toastify__toast-container",
    "[role='alert']",
    "[data-testid^='toast-']",
    ".MuiSnackbar-root",
    ".MuiAlert-root",
    ".ant-message",
    "div[class*='toast']",
    "div[class*='snackbar']",
    "div[class*='message']" >>

success_texts == << "success", "Success", "created", "assigned", "added",
                    "updated", "device", "merchant", "ipn" >>

\* f"text containing '{text}'" for the k-th keyword
keyword_labels == <<
    "text containing 'success'", "text containing 'Success'",
    "text containing 'created'", "text containing 'assigned'",
    "text containing 'added'", "text containing 'updated'",
    "text containing 'device'", "text containing 'merchant'",
    "text containing 'ipn'" >>

\* wait_for_selector(selector, timeout=2000, state="visible")
SelectorWaitMs == 2000

\* toast.text_content(timeout=1000)
TextReadMs == 1000

NoToastFound == "No toast message found within timeout"

\* ---------------------------------------- helpers.py and base_api.py constants

\* retry's defaults: max_attempts=3, delay=2.
DefaultAttempts == 3

DefaultDelay == 2

\* BaseAPI.__init__: self.max_retries = 3.
InitialMaxRetries == 3

\* @retry(max_attempts=3, delay=2, exceptions=(requests.RequestException,))
\* on BaseAPI._make_request.
RequestAttempts == 3

RequestDelay == 2

\* The delays a decorator is given.
Delays == {1, 2}

\* ------------------------------------------------- mongo_handler.py constants

\* _connect_with_retry(self, max_retries: int = 2)
connect_max_retries == 2

\* ----------------------------------------------------------------- state

VARIABLES
    pc,            \* "idle", "selectors", "keywords", "returned", "raised"
    idx,           \* position in the selector loop or in the keyword loop
    expected,      \* the call's expected_text
    timeout,       \* the call's timeout argument
    waited,        \* ms spent in sub-timeouts that expired during the call
    result,        \* the dict the last call returned
    isClosed,      \* BasePage._is_closed
    pageUsable,    \* the browser page still answers
    shot,          \* a screenshot was attached during the call
    failed,        \* selectors tried in this call whose wait or read failed
    readFails,     \* text reads that failed in this call
    lastOutcome,   \* what the driver answered to the latest probe
    lastRead,      \* the raw text the latest successful read returned
    prevSuccess,   \* the call before this one returned success = True
    probed         \* this call's liveness check asked the page (page.title())

toastVars == <<pc, idx, expected, timeout, waited, result, isClosed, pageUsable,
               shot, failed, readFails, lastOutcome, lastRead, prevSuccess,
               probed>>

VARIABLES
    tpc,                 \* step of complete_tms_flow: "login", "sync", "add_merchant",
                         \* "assign_ipn", "dashboard", "done"
    cpc,                 \* inside capture_toast_once: "none", "selectors", "keywords", "alert"
    cidx,                \* position in capture_toast_once's selector or keyword loop
    last_toast_message,  \* TMSPage.last_toast_message
    toastReadIn,         \* the step during which last_toast_message was read off the page
    flow                 \* complete_tms_flow's result dict

tmsVars == <<tpc, cpc, cidx, last_toast_message, toastReadIn, flow>>

VARIABLES
    rpc,             \* retry's wrapper: "idle", "calling", "returned", "raised"
    site,            \* what is wrapped: "decorated" (any function) or "base_api"
    max_attempts,    \* the decorator's max_attempts
    delay,           \* the decorator's delay
    attempt,         \* the loop variable of the wrapper
    outcomes,        \* what each invocation of the wrapped function did, in order
    sleeps,          \* the argument of each time.sleep of the wrapper, in order
    last_exception,  \* the invocation whose exception last_exception holds (0: None)
    rresult,         \* how the wrapper ended
    max_retries      \* BaseAPI.max_retries

retryVars == <<rpc, site, max_attempts, delay, attempt, outcomes, sleeps,
               last_exception, rresult, max_retries>>

VARIABLES
    method,   \* the method or helper that was called, "none" before
    args,     \* its arguments
    reply,    \* what it got: the reply of BaseAPI.post, the toast captured
    ended     \* what it returned or raised

apiVars == <<method, args, reply, ended>>

VARIABLES
    mpc,           \* MongoHandler: "connecting", "ready", "init_raised"
    mop,           \* the operation in progress or last finished: "init", "query", "disconnect"
    mattempt,      \* the loop variable of _connect_with_retry
    client,        \* self.client: 0 for None, else the k-th MongoClient made
    db,            \* self.db: 0 for None, else the client it was taken from
    is_connected,  \* self.is_connected
    lastPing       \* the ping of the latest _connect: "none", "ok", "failed"

mongoVars == <<mpc, mop, mattempt, client, db, is_connected, lastPing>>

VARIABLES
    steps,    \* TestStateManager.steps: the latest status of each recorded step
    errors,   \* TestStateManager.errors: the step of each error, in order
    summary   \* what the latest get_summary returned, if no step came after

stateVars == <<steps, errors, summary>>

VARIABLES
    instance,    \* Config._instance: 0 for None, 1 for the instance made
    config,      \* _config as the instance sees it
    loaded,      \* how _load_config ended: "never", "ok", "raised"
    loads,       \* the number of times _load_config ran
    configCall   \* the latest call on Config and how it ended

configVars == <<instance, config, loaded, loads, configCall>>

VARIABLES
    regStep,     \* complete_registration_with_toast: the step to run next
    customer,    \* its argument
    regResult,   \* its local `result`
    regConfirm   \* what the confirmation button did: "none", "hidden", "clicked", "raised"

regVars == <<regStep, customer, regResult, regConfirm>>

VARIABLES
    testStep,   \* test_9_step_device_transaction_flow: the step to run next
    state,      \* self.state: the steps, context and errors of its TestStateManager
    sent        \* the scheme of each IPNAPI.send_transaction call of the run

testVars == <<testStep, state, sent>>

\* What the actions of capture_toast_message leave alone.
otherThanToast == <<tmsVars, retryVars, apiVars, mongoVars, stateVars,
                    configVars, regVars, testVars>>

\* What the actions of the TMS flow leave alone.
otherThanTms == <<toastVars, retryVars, apiVars, mongoVars, stateVars,
                  configVars, regVars, testVars>>

\* What the actions of retry and BaseAPI leave alone.
otherThanRetry == <<toastVars, tmsVars, apiVars, mongoVars, stateVars,
                    configVars, regVars, testVars>>

\* What the calls of IPNAPI, DPSAPI, TMSPage and generate_imei leave alone.
otherThanApi == <<toastVars, tmsVars, retryVars, mongoVars, stateVars,
                  configVars, regVars, testVars>>

\* What the operations of MongoHandler leave alone.
otherThanMongo == <<toastVars, tmsVars, retryVars, apiVars, stateVars,
                    configVars, regVars, testVars>>

\* What the methods of TestStateManager leave alone.
otherThanState == <<toastVars, tmsVars, retryVars, apiVars, mongoVars,
                    configVars, regVars, testVars>>

\* What the calls on Config leave alone.
otherThanConfig == <<toastVars, tmsVars, retryVars, apiVars, mongoVars,
                     stateVars, regVars, testVars>>

\* What the steps of complete_registration_with_toast leave alone.
otherThanReg == <<toastVars, tmsVars, retryVars, apiVars, mongoVars,
                  stateVars, configVars, testVars>>

\* What the steps of the 9-step test leave alone.
otherThanTest == <<toastVars, tmsVars, retryVars, apiVars, mongoVars,
                   stateVars, configVars, regVars>>

vars == <<toastVars, tmsVars, retryVars, apiVars, mongoVars, stateVars,
          configVars, regVars, testVars>>

\* ------------------------------------------------ capture_toast_message parts

\* A faulty variant of Candidate: the loop walks the list from its generic end.
CandidateReversed(k) == toast_selectors[Len(toast_selectors) + 1 - k]

\* The k-th candidate the selector loop tries.
Candidate(k) == toast_selectors[k]

\* `expected_text.lower() in toast_text.lower() if expected_text else True`
ContainsExpected(exp, text) ==
    IF Truthy(exp) THEN Contains(Lower(exp), Lower(text)) ELSE TRUE

\* A faulty variant of ToastDetails: a text that misses expected_text is
\* reported as a failed capture.
ToastDetailsStrict(text, sel, exp, w) ==
    [ success           |-> ContainsExpected(exp, text),
      text              |-> Strip(text),
      selector          |-> sel,
      contains_expected |-> ContainsExpected(exp, text),
      expected_text     |-> exp,
      wait_time_ms      |-> w ]

\* The dict of a match: toast_details.
ToastDetails(text, sel, exp, w) ==
    [ success           |-> TRUE,
      text              |-> Strip(text),
      selector          |-> sel,
      contains_expected |-> ContainsExpected(exp, text),
      expected_text     |-> exp,
      wait_time_ms      |-> w ]

\* A variant of FailureResult: the failure dict also carries text and
\* contains_expected.
FailureResultWithText(err, w) ==
    [ success |-> FALSE, error |-> err, wait_time_ms |-> w,
      text |-> <<>>, contains_expected |-> FALSE ]

\* The dict of the outer handler.
FailureResult(err, w) ==
    [ success |-> FALSE, error |-> err, wait_time_ms |-> w ]

\* A faulty variant of HandleCaptureException: no outer handler, the exception
\* leaves the call.
HandleCaptureExceptionReraise(err, w) ==
    [ pc |-> "raised", result |-> NoResult ]

\* `except Exception as e:` around the whole capture: a structured result.
HandleCaptureException(err, w) ==
    [ pc |-> "returned", result |-> FailureResult(err, w) ]

\* A faulty variant of SelectorExcept: the text read stands outside the loop's
\* try, so a failed read ends the capture in the outer handler.
SelectorExceptReadAborts(k, outcome) ==
    IF outcome \in {"detached", "read_timeout"}
    THEN [ pc |-> "returned", idx |-> k, result |-> FailureResult(outcome, waited) ]
    ELSE IF k < Len(toast_selectors)
         THEN [ pc |-> "selectors", idx |-> k + 1, result |-> result ]
         ELSE [ pc |-> "keywords",  idx |-> 1,     result |-> result ]

\* `except: continue` of the selector loop: the next candidate, and after the
\* last one the keyword search.
SelectorExcept(k, outcome) ==
    IF k < Len(toast_selectors)
    THEN [ pc |-> "selectors", idx |-> k + 1, result |-> result ]
    ELSE [ pc |-> "keywords",  idx |-> 1,     result |-> result ]

\* A faulty variant of NothingFound: the page object remembers that it captured
\* a toast and hands a remembered capture back when it finds nothing.
NothingFoundStale(w) ==
    IF prevSuccess
    THEN [ pc |-> "returned", result |-> ToastDetails(<<"a">>, Candidate(1), expected, w) ]
    ELSE HandleCaptureException(NoToastFound, w)

\* `raise Exception("No toast message found within timeout")`, caught by the
\* outer handler.
NothingFound(w) == HandleCaptureException(NoToastFound, w)

\* A faulty variant of KeywordExcept: each keyword has its own handler, and
\* after a check that raised the loop goes on.
KeywordExceptContinues(w) == [ pc |-> "keywords", result |-> result ]

\* `except: pass` around the keyword loop: falls through to the raise.
KeywordExcept(w) == NothingFound(w)

\* verify_toast_message: both branches return the capture's dict.
verify_toast_message(r) ==
    IF r.success /\ Get(r, "contains_expected", FALSE) THEN r ELSE r

\* ---------------------------------------------------------------- actions

\* The TMS flow is not running.
TmsIdle ==
    /\ tpc = "login"
    /\ cpc = "none"
    /\ cidx = 1
    /\ last_toast_message = None
    /\ toastReadIn = "none"
    /\ flow = NoResult

ToastInit ==
    /\ pc = "idle"
    /\ idx = 1
    /\ expected = None
    /\ timeout = 10000
    /\ waited = 0
    /\ result = NoResult
    /\ isClosed = FALSE
    /\ pageUsable = TRUE
    /\ shot = FALSE
    /\ failed = {}
    /\ readFails = 0
    /\ lastOutcome = "none"
    /\ lastRead = None
    /\ prevSuccess = FALSE
    /\ probed = FALSE

\* A faulty variant of CheckPageAlive: a failed page.title() raises but leaves
\* _is_closed as it was.
CheckPageAliveForgets ==
    \/ /\ isClosed
       /\ pc' = "raised"
       /\ probed' = FALSE
       /\ UNCHANGED isClosed
    \/ /\ ~isClosed
       /\ ~pageUsable
       /\ pc' = "raised"
       /\ probed' = TRUE
       /\ UNCHANGED isClosed
    \/ /\ ~isClosed
       /\ pageUsable
       /\ pc' = "selectors"
       /\ probed' = TRUE
       /\ UNCHANGED isClosed

\* _check_page_alive at the head of capture_toast_message: raises when the
\* object is marked closed or page.title() raises (and then marks it closed).
CheckPageAlive ==
    \/ /\ isClosed
       /\ pc' = "raised"
       /\ probed' = FALSE
       /\ UNCHANGED isClosed
    \/ /\ ~isClosed
       /\ ~pageUsable
       /\ isClosed' = TRUE
       /\ pc' = "raised"
       /\ probed' = TRUE
    \/ /\ ~isClosed
       /\ pageUsable
       /\ pc' = "selectors"
       /\ probed' = TRUE
       /\ UNCHANGED isClosed

\* What take_screenshot can meet: the image is attached, page.title() raises
\* in its liveness check, or page.screenshot() raises on a live page.
ScreenshotOutcomes == {"attached", "page_dead", "screenshot_error"}

\* take_screenshot during a call: it swallows every exception, and its
\* liveness check marks the object closed when the page no longer answers.
TakeScreenshot(outcome) ==
    /\ shot' = (outcome = "attached")
    /\ isClosed' = (isClosed \/ outcome = "page_dead")
    /\ pageUsable' = (pageUsable /\ outcome # "page_dead")

\* BaseAPI.__init__ sets max_retries; no wrapped call is running.
RetryIdle ==
    /\ rpc = "idle"
    /\ site = "decorated"
    /\ max_attempts = DefaultAttempts
    /\ delay = DefaultDelay
    /\ attempt = 1
    /\ outcomes = <<>>
    /\ sleeps = <<>>
    /\ last_exception = 0
    /\ rresult = NoResult
    /\ max_retries = InitialMaxRetries

\* No call of the API clients is made or was made.
ApiIdle ==
    /\ method = "none"
    /\ args = NoBody
    /\ reply = NoReply
    /\ ended = NoOutcome

\* __init__ has set client = None, db = None, is_connected = False and is
\* about to call _connect_with_retry.
MongoInit ==
    /\ mpc = "connecting"
    /\ mop = "init"
    /\ mattempt = 0
    /\ client = 0
    /\ db = 0
    /\ is_connected = FALSE
    /\ lastPing = "none"

\* TestStateManager.__init__
StateInit ==
    /\ steps = <<>>
    /\ errors = <<>>
    /\ summary = NoResult

\* The class attributes of Config before the first Config().
ConfigInit ==
    /\ instance = 0
    /\ config = PyNone
    /\ loaded = "never"
    /\ loads = 0
    /\ configCall = [call |-> "none", default |-> PyNone, ended |-> NoOutcome]

\* No registration is running.
RegIdle ==
    /\ regStep = "idle"
    /\ customer = <<>>
    /\ regResult = NoResult
    /\ regConfirm = "none"

\* The setup fixture: a fresh TestStateManager, the test about to start.
TestSetup ==
    /\ testStep = "Admin Portal Login"
    /\ state = [steps |-> <<>>, context |-> <<>>, errors |-> <<>>]
    /\ sent = <<>>

\* A fresh BasePage on a usable page, a fresh TMSPage before its flow, a
\* fresh BaseAPI, API clients before their first call, a MongoHandler in
\* its constructor, a fresh TestStateManager, the Config class before its
\* first instance, no registration running, the 9-step test set up.
Init ==
    /\ ToastInit /\ TmsIdle /\ RetryIdle /\ ApiIdle /\ MongoInit
    /\ StateInit /\ ConfigInit /\ RegIdle /\ TestSetup

\* The browser page is closed or crashes between two calls (a page lost
\* during a call is met by take_screenshot).
PageCloses ==
    /\ pc = "idle"
    /\ pageUsable
    /\ pageUsable' = FALSE
    /\ UNCHANGED otherThanToast
    /\ UNCHANGED <<pc, idx, expected, timeout, waited, result, isClosed, shot,
                   failed, readFails, lastOutcome, lastRead, prevSuccess, probed>>

\* The page answers again between two calls (page.title() had raised during a
\* navigation or a reload); the object's _is_closed is untouched by it.
PageRecovers ==
    /\ pc = "idle"
    /\ ~pageUsable
    /\ pageUsable' = TRUE
    /\ UNCHANGED otherThanToast
    /\ UNCHANGED <<pc, idx, expected, timeout, waited, result, isClosed, shot,
                   failed, readFails, lastOutcome, lastRead, prevSuccess, probed>>

\* The caller takes what the call returned (or the exception it raised) and
\* goes on: the call's frame is gone, the page object keeps _is_closed only.
CallerResumes ==
    /\ pc \in {"returned", "raised"}
    /\ pc' = "idle"
    /\ prevSuccess' = (pc = "returned" /\ Get(result, "success", FALSE))
    /\ result' = NoResult
    /\ expected' = None
    /\ timeout' = 10000
    /\ waited' = 0
    /\ idx' = 1
    /\ shot' = FALSE
    /\ failed' = {}
    /\ readFails' = 0
    /\ lastOutcome' = "none"
    /\ lastRead' = None
    /\ probed' = FALSE
    /\ UNCHANGED otherThanToast
    /\ UNCHANGED <<isClosed, pageUsable>>

\* capture_toast_message(expected_text, timeout) is called: _check_page_alive,
\* then the locals of a fresh call.
CallCapture ==
    /\ pc = "idle"
    /\ \E exp \in ExpectedTexts, to \in Timeouts :
         /\ expected' = exp
         /\ timeout' = to
    /\ result' = NoResult
    /\ waited' = 0
    /\ idx' = 1
    /\ shot' = FALSE
    /\ failed' = {}
    /\ readFails' = 0
    /\ lastOutcome' = "none"
    /\ lastRead' = None
    /\ CheckPageAlive
    /\ UNCHANGED otherThanToast
    /\ UNCHANGED <<pageUsable, prevSuccess>>

\* One pass of the selector loop whose wait or read raises.
SelectorFails ==
    /\ pc = "selectors"
    /\ \E outcome \in {"not_visible", "detached", "read_timeout"} :
         /\ outcome \in {"detached", "read_timeout"} => readFails < MaxReadFails
         /\ lastOutcome' = outcome
         /\ readFails' = IF outcome = "not_visible" THEN readFails ELSE readFails + 1
         /\ waited' = waited + CASE outcome = "not_visible"  -> SelectorWaitMs
                                 [] outcome = "detached"     -> 0
                                 [] outcome = "read_timeout" -> TextReadMs
         /\ failed' = failed \cup {Candidate(idx)}
         /\ LET next == SelectorExcept(idx, outcome) IN
              /\ pc' = next.pc
              /\ idx' = next.idx
              /\ result' = next.result
    /\ UNCHANGED otherThanToast
    /\ UNCHANGED <<expected, timeout, isClosed, pageUsable, shot,
                   lastRead, prevSuccess, probed>>

\* One pass of the selector loop that finds the element and reads its text:
\* toast_details, take_screenshot, return.
SelectorMatches ==
    /\ pc = "selectors"
    /\ \E raw \in RawTexts :
         /\ lastRead' = raw
         /\ result' = ToastDetails(OrEmpty(raw), Candidate(idx), expected, waited)
    /\ \E outcome \in ScreenshotOutcomes : TakeScreenshot(outcome)
    /\ lastOutcome' = "ok"
    /\ pc' = "returned"
    /\ UNCHANGED otherThanToast
    /\ UNCHANGED <<idx, expected, timeout, waited, failed, readFails, prevSuccess, probed>>

\* One pass of the keyword loop whose element is not visible: the next
\* keyword, and after the last one the raise of "No toast message found".
KeywordNotVisible ==
    /\ pc = "keywords"
    /\ lastOutcome' = "kw_not_visible"
    /\ IF idx < Len(success_texts)
       THEN /\ idx' = idx + 1
            /\ UNCHANGED <<pc, result>>
       ELSE LET out == NothingFound(waited) IN
              /\ pc' = out.pc
              /\ result' = out.result
              /\ UNCHANGED idx
    /\ UNCHANGED otherThanToast
    /\ UNCHANGED <<expected, timeout, waited, isClosed, pageUsable, shot, failed,
                   readFails, lastRead, prevSuccess, probed>>

\* One pass of the keyword loop in which is_visible or text_content raises:
\* the loop's single `except: pass`, then the raise of "No toast message found".
KeywordRaises ==
    /\ pc = "keywords"
    /\ \E outcome \in {"kw_error", "kw_read_error"} : lastOutcome' = outcome
    /\ LET out == KeywordExcept(waited) IN
         /\ pc' = out.pc
         /\ result' = out.result
    /\ UNCHANGED otherThanToast
    /\ UNCHANGED <<idx, expected, timeout, waited, isClosed, pageUsable, shot,
                   failed, readFails, lastRead, prevSuccess, probed>>

\* One pass of the keyword loop that finds a visible element and reads its
\* text: toast_details and return (this path takes no screenshot).
KeywordMatches ==
    /\ pc = "keywords"
    /\ \E raw \in RawTexts :
         /\ lastRead' = raw
         /\ result' = ToastDetails(OrEmpty(raw), keyword_labels[idx], expected, waited)
    /\ lastOutcome' = "kw_ok"
    /\ pc' = "returned"
    /\ UNCHANGED otherThanToast
    /\ UNCHANGED <<idx, expected, timeout, waited, isClosed, pageUsable, shot,
                   failed, readFails, prevSuccess, probed>>

Next ==
    \/ PageCloses
    \/ PageRecovers
    \/ CallCapture
    \/ CallerResumes
    \/ SelectorFails
    \/ SelectorMatches
    \/ KeywordNotVisible
    \/ KeywordRaises
    \/ KeywordMatches

Spec == Init /\ [][Next]_vars

\* ------------------------------------------------- tms_full_flow.py: TMSPage

\* capture_toast_once's selectors
tms_selectors == << "[role='alert']", ".MuiAlert-root", ".toast", ".notification",
                    ".ant-message", ".ant-notification", ".success-message",
                    ".alert-success" >>

\* capture_toast_once's success_keywords
success_keywords == << "success", "created", "added", "saved", "merchant" >>

\* The words the flow looks for in a toast, as strings of characters.
WordMerchant == << "m", "e", "r", "c", "h", "a", "n", "t" >>

WordAssigned == << "a", "s", "s", "i", "g", "n", "e", "d" >>

WordIpn == << "i", "p", "n" >>

\* `if toast_text and toast_text.strip():` the text is worth keeping.
Keepable(raw) == Truthy(raw) /\ Strip(raw) # <<>>

\* complete_tms_flow's result dict before the first step.
FlowStart ==
    [ overall_success       |-> FALSE,
      steps                 |-> <<>>,
      merchant_result       |-> <<>>,
      ipn_assignment_result |-> <<>> ]

\* The `except Exception as e:` of complete_tms_flow.
FlowFailed(f) == ("error" :> "exception") @@ [f EXCEPT !.overall_success = FALSE]

\* result["steps"][name] = value
WithStep(f, name, value) == [f EXCEPT !.steps = (name :> value) @@ f.steps]

\* add_merchant's result for the toast text capture_toast_once returned.
MerchantResult(text) ==
    [ success      |-> TRUE,
      toast_result |-> [ success           |-> Truthy(text),
                         text              |-> OrEmpty(text),
                         contains_expected |-> Truthy(text) /\ Contains(WordMerchant, Lower(text)) ] ]

\* assign_ipn_to_merchant's result for the toast text capture_toast_once returned.
IpnResult(text) ==
    [ success      |-> TRUE,
      toast_result |-> [ success           |-> Truthy(text),
                         text              |-> OrEmpty(text),
                         contains_expected |-> Truthy(text) /\ (\/ Contains(WordAssigned, Lower(text))
                                                                \/ Contains(WordIpn, Lower(text))) ] ]

\* `all([steps.get("login"), steps.get("add_merchant"), steps.get("assign_ipn")])`
OverallSuccess(f) ==
    /\ Get(f.steps, "login", FALSE)
    /\ Get(f.steps, "add_merchant", FALSE)
    /\ Get(f.steps, "assign_ipn", FALSE)

\* The step that called capture_toast_once goes on with the text it returned.
StepContinues(text) ==
    /\ cpc' = "none"
    /\ cidx' = 1
    /\ CASE tpc = "sync" ->
              /\ flow' = WithStep(flow, "sync_ipn", TRUE)
              /\ tpc' = "add_merchant"
         [] tpc = "add_merchant" ->
              /\ flow' = WithStep([flow EXCEPT !.merchant_result = MerchantResult(text)],
                                  "add_merchant", TRUE)
              /\ tpc' = "assign_ipn"
         [] tpc = "assign_ipn" ->
              /\ flow' = WithStep([flow EXCEPT !.ipn_assignment_result = IpnResult(text)],
                                  "assign_ipn", TRUE)
              /\ tpc' = "dashboard"

\* The head of capture_toast_once: the cached message, when there is one,
\* is returned at once; otherwise the search starts.
CaptureToastOnce ==
    IF Truthy(last_toast_message)
    THEN /\ StepContinues(last_toast_message)
         /\ UNCHANGED <<last_toast_message, toastReadIn>>
    ELSE /\ cpc' = "selectors"
         /\ cidx' = 1
         /\ UNCHANGED <<tpc, flow, last_toast_message, toastReadIn>>

\* capture_toast_once stores the text it read and returns it.
CaptureStores(raw) ==
    /\ last_toast_message' = Strip(raw)
    /\ toastReadIn' = tpc
    /\ StepContinues(Strip(raw))

\* A step of the flow raised: complete_tms_flow returns the failed result.
StepRaises ==
    /\ flow' = FlowFailed(flow)
    /\ tpc' = "done"
    /\ UNCHANGED <<cpc, cidx, last_toast_message, toastReadIn>>

\* complete_tms_flow, step 1: login().
TmsLogin ==
    /\ tpc = "login"
    /\ \E ok \in BOOLEAN :
         IF ok THEN /\ flow' = WithStep(FlowStart, "login", TRUE)
                    /\ tpc' = "sync"
               ELSE /\ flow' = FlowFailed(FlowStart)
                    /\ tpc' = "done"
    /\ UNCHANGED <<cpc, cidx, last_toast_message, toastReadIn>>
    /\ UNCHANGED otherThanTms

\* complete_tms_flow, step 2: sync_ipn().  The toast is captured only when the
\* "everything is already up-to" message is visible.
TmsSyncIpn ==
    /\ tpc = "sync"
    /\ cpc = "none"
    /\ \E outcome \in {"raises", "no_message", "message"} :
         CASE outcome = "raises"     -> StepRaises
           [] outcome = "no_message" ->
                /\ flow' = WithStep(flow, "sync_ipn", TRUE)
                /\ tpc' = "add_merchant"
                /\ UNCHANGED <<cpc, cidx, last_toast_message, toastReadIn>>
           [] outcome = "message"    -> CaptureToastOnce
    /\ UNCHANGED otherThanTms

\* complete_tms_flow, step 3: add_merchant() up to the click on Add and the
\* call of capture_toast_once.
TmsAddMerchant ==
    /\ tpc = "add_merchant"
    /\ cpc = "none"
    /\ \E ok \in BOOLEAN : IF ok THEN CaptureToastOnce ELSE StepRaises
    /\ UNCHANGED otherThanTms

\* complete_tms_flow, step 4: assign_ipn_to_merchant() up to the click on
\* Assign and the call of capture_toast_once.
TmsAssignIpn ==
    /\ tpc = "assign_ipn"
    /\ cpc = "none"
    /\ \E ok \in BOOLEAN : IF ok THEN CaptureToastOnce ELSE StepRaises
    /\ UNCHANGED otherThanTms

\* complete_tms_flow, step 5: navigate_to_dashboard(), then overall_success.
TmsDashboard ==
    /\ tpc = "dashboard"
    /\ \E ok \in BOOLEAN :
         IF ok THEN LET f == WithStep(flow, "navigate_dashboard", TRUE) IN
                      flow' = [f EXCEPT !.overall_success = OverallSuccess(f)]
               ELSE flow' = FlowFailed(flow)
    /\ tpc' = "done"
    /\ UNCHANGED <<cpc, cidx, last_toast_message, toastReadIn>>
    /\ UNCHANGED otherThanTms

\* capture_toast_once, one pass of the selector loop: an element that is not
\* visible, raises or has no text passes the turn to the next selector.
TmsCaptureSelector ==
    /\ cpc = "selectors"
    /\ \E outcome \in {"error", "not_visible", "visible"}, raw \in RawTexts :
         IF outcome = "visible" /\ Keepable(raw)
         THEN CaptureStores(raw)
         ELSE /\ IF cidx < Len(tms_selectors)
                 THEN /\ cidx' = cidx + 1
                      /\ UNCHANGED cpc
                 ELSE /\ cidx' = 1
                      /\ cpc' = "keywords"
              /\ UNCHANGED <<tpc, flow, last_toast_message, toastReadIn>>
    /\ UNCHANGED otherThanTms

\* capture_toast_once, one pass of the keyword loop: an exception leaves the
\* loop (`except: pass`), an invisible or empty element passes the turn.
TmsCaptureKeyword ==
    /\ cpc = "keywords"
    /\ \E outcome \in {"error", "not_visible", "visible"}, raw \in RawTexts :
         IF outcome = "visible" /\ Keepable(raw)
         THEN CaptureStores(raw)
         ELSE /\ IF outcome # "error" /\ cidx < Len(success_keywords)
                 THEN /\ cidx' = cidx + 1
                      /\ UNCHANGED cpc
                 ELSE /\ cidx' = 1
                      /\ cpc' = "alert"
              /\ UNCHANGED <<tpc, flow, last_toast_message, toastReadIn>>
    /\ UNCHANGED otherThanTms

\* capture_toast_once, the get_by_role("alert") attempt, and `return None`
\* when it gives nothing either.
TmsCaptureAlert ==
    /\ cpc = "alert"
    /\ \E outcome \in {"error", "not_visible", "visible"}, raw \in RawTexts :
         IF outcome = "visible" /\ Keepable(raw)
         THEN CaptureStores(raw)
         ELSE /\ StepContinues(None)
              /\ UNCHANGED <<last_toast_message, toastReadIn>>
    /\ UNCHANGED otherThanTms

TmsNext ==
    \/ TmsLogin
    \/ TmsSyncIpn
    \/ TmsAddMerchant
    \/ TmsAssignIpn
    \/ TmsDashboard
    \/ TmsCaptureSelector
    \/ TmsCaptureKeyword
    \/ TmsCaptureAlert

SpecTms == Init /\ [][TmsNext]_vars

\* ------------------------------------------- helpers.py: retry, and BaseAPI

\* A faulty variant of RangeHasNext: the loop runs once more than max_attempts.
RangeHasNextOff(k, n) == k + 1 \in 1..(n + 1)

\* `for attempt in range(1, max_attempts + 1)`: there is an iteration after
\* the k-th one.
RangeHasNext(k, n) == k + 1 \in 1..n

\* `if attempt < max_attempts:` the wrapper sleeps before the next iteration.
SleepsAfter(k, n) == k < n

\* `wait_time = delay * attempt`
wait_time(d, k) == d * k

\* The locals of a fresh wrapper call.
WrapperEnters(s, n, d) ==
    /\ rpc' = "calling"
    /\ site' = s
    /\ max_attempts' = n
    /\ delay' = d
    /\ attempt' = 1
    /\ outcomes' = <<>>
    /\ sleeps' = <<>>
    /\ last_exception' = 0
    /\ rresult' = NoResult

\* A function decorated with retry(max_attempts=n, delay=d, exceptions=E) is
\* called.
CallDecorated ==
    /\ rpc = "idle"
    /\ \E n \in 1..MaxAttempts, d \in Delays : WrapperEnters("decorated", n, d)
    /\ UNCHANGED otherThanRetry
    /\ UNCHANGED max_retries

\* get/post/put/delete call _make_request, whose decorator was given 3 and 2
\* when the class was defined.
CallMakeRequest ==
    /\ rpc = "idle"
    /\ WrapperEnters("base_api", RequestAttempts, RequestDelay)
    /\ UNCHANGED otherThanRetry
    /\ UNCHANGED max_retries

\* set_max_retries(n): self.max_retries = n.
set_max_retries ==
    /\ rpc = "idle"
    /\ \E n \in 1..MaxAttempts :
         /\ n # max_retries
         /\ max_retries' = n
    /\ UNCHANGED otherThanRetry
    /\ UNCHANGED <<rpc, site, max_attempts, delay, attempt, outcomes, sleeps,
                   last_exception, rresult>>

\* `return func(*args, **kwargs)`: the invocation returns and so does the
\* wrapper.
InvocationReturns ==
    /\ rpc = "calling"
    /\ outcomes' = Append(outcomes, "value")
    /\ rresult' = [kind |-> "value", of |-> attempt]
    /\ rpc' = "returned"
    /\ UNCHANGED otherThanRetry
    /\ UNCHANGED <<site, max_attempts, delay, attempt, sleeps, last_exception,
                   max_retries>>

\* The invocation raises an exception that `except exceptions` does not
\* catch: it leaves the wrapper.
InvocationRaisesUncaught ==
    /\ rpc = "calling"
    /\ outcomes' = Append(outcomes, "not_in_E")
    /\ rresult' = [kind |-> "not_in_E", of |-> attempt]
    /\ rpc' = "raised"
    /\ UNCHANGED otherThanRetry
    /\ UNCHANGED <<site, max_attempts, delay, attempt, sleeps, last_exception,
                   max_retries>>

\* The invocation raises an exception in `exceptions`: last_exception = e,
\* then the sleep and the next iteration, or after the loop
\* `raise last_exception`.
InvocationRaisesCaught ==
    /\ rpc = "calling"
    /\ outcomes' = Append(outcomes, "in_E")
    /\ last_exception' = attempt
    /\ sleeps' = IF SleepsAfter(attempt, max_attempts)
                 THEN Append(sleeps, wait_time(delay, attempt))
                 ELSE sleeps
    /\ IF RangeHasNext(attempt, max_attempts)
       THEN /\ attempt' = attempt + 1
            /\ UNCHANGED <<rpc, rresult>>
       ELSE /\ rpc' = "raised"
            /\ rresult' = [kind |-> "in_E", of |-> attempt]
            /\ UNCHANGED attempt
    /\ UNCHANGED otherThanRetry
    /\ UNCHANGED <<site, max_attempts, delay, max_retries>>

\* The caller of the wrapped function goes on; the BaseAPI object keeps
\* max_retries.
WrapperLeft ==
    /\ rpc \in {"returned", "raised"}
    /\ rpc' = "idle"
    /\ site' = "decorated"
    /\ max_attempts' = DefaultAttempts
    /\ delay' = DefaultDelay
    /\ attempt' = 1
    /\ outcomes' = <<>>
    /\ sleeps' = <<>>
    /\ last_exception' = 0
    /\ rresult' = NoResult
    /\ UNCHANGED otherThanRetry
    /\ UNCHANGED max_retries

RetryNext ==
    \/ CallDecorated
    \/ CallMakeRequest
    \/ set_max_retries
    \/ InvocationReturns
    \/ InvocationRaisesUncaught
    \/ InvocationRaisesCaught
    \/ WrapperLeft

SpecRetry == Init /\ [][RetryNext]_vars

\* --------------------------------------- ipn_api.py and dps_api.py: values

\* The characters of an amount: two decimal digits, a letter, and "sup2",
\* the character SUPERSCRIPT TWO (U+00B2), a digit for str.isdigit() that
\* int() does not parse.
AmountChars == {"0", "1", "a", "sup2"}

DecimalDigits == <<"0", "1", "2", "3", "4", "5", "6", "7", "8", "9">>

IsDecimal(c) == \E i \in 1..Len(DecimalDigits) : DecimalDigits[i] = c

\* str.isdigit(): there is at least one character and each is a digit, a
\* decimal one or one of another kind (such as a superscript).
isdigit(chars) ==
    /\ chars # <<>>
    /\ \A i \in 1..Len(chars) : IsDecimal(chars[i]) \/ chars[i] = "sup2"

\* int(s) for a string of decimal digits.
RECURSIVE int(_)
int(chars) ==
    IF chars = <<>> THEN 0
    ELSE LET last == chars[Len(chars)]
             value == (CHOOSE i \in 1..Len(DecimalDigits) : DecimalDigits[i] = last) - 1
         IN  10 * int(SubSeq(chars, 1, Len(chars) - 1)) + value

\* The decimal digits of a natural number, as str() writes them.
RECURSIVE DigitsOf(_)
DigitsOf(k) ==
    IF k < 10 THEN <<DecimalDigits[k + 1]>>
    ELSE Append(DigitsOf(k \div 10), DecimalDigits[(k % 10) + 1])

\* str(v)
str(v) ==
    CASE v.t = "str" -> v
      [] v.t = "int" -> PyStr(DigitsOf(v.n))
      [] OTHER       -> PyStr(<<"N", "o", "n", "e">>)

\* dict.update(other)
Update(d, other) ==
    [k \in DOMAIN d \cup DOMAIN other |-> IF k \in DOMAIN other THEN other[k] ELSE d[k]]

\* ------------------------------------------------------- ipn_api.py: IPNAPI

\* expected_message of send_transaction.
expected_message ==
    << "n", "o", "t", "i", "f", "i", "c", "a", "t", "i", "o", "n",
       " ", "d", "e", "l", "i", "v", "e", "r", "e", "d", " ", "s",
       "u", "c", "c", "e", "s", "s", "f", "u", "l", "l", "y" >>

\* A faulty variant of WithoutNone: the payload keeps its None entries.
WithNone(d) == d

\* `{k: v for k, v in payload.items() if v is not None}`
WithoutNone(d) == [k \in {key \in DOMAIN d : d[key] # PyNone} |-> d[k]]

\* IPNAPI._build_payload(amount, merchant_code, merchant_id, store_id,
\* terminal_id, **kwargs) of a client of scheme a.scheme.
build_payload(a) ==
    IF a.scheme = "nchl"
    THEN Returns(WithoutNone(Update(
            [ amount       |-> str(a.amount),
              storeId      |-> a.store_id,
              terminalId   |-> a.terminal_id,
              merchantCode |-> a.merchant_code ], a.kwargs)))
    ELSE IF a.scheme = "fonepay"
    THEN Returns(WithoutNone(Update(
            [ amount     |-> str(a.amount),
              merchantId |-> a.merchant_id,
              terminalId |-> a.terminal_id ], a.kwargs)))
    ELSE Raises("ValueError")

\* The errors list of verify_transaction_parameters, amount part.
AmountErrors(amount) ==
    IF ~PyTruthy(amount) \/ amount.t # "str"
    THEN {"Amount must be a non-empty string"}
    ELSE IF ~isdigit(amount.s)
    THEN {"Amount must contain only digits"}
    ELSE IF int(amount.s) <= 0
    THEN {"Amount must be positive"}
    ELSE {}

\* The errors list of verify_transaction_parameters, scheme part.
SchemeErrors(a) ==
    IF a.scheme = "nchl"
    THEN (IF PyTruthy(a.store_id) THEN {} ELSE {"Store ID is required"})
         \cup (IF PyTruthy(a.terminal_id) THEN {} ELSE {"Terminal ID is required"})
         \cup (IF PyTruthy(a.merchant_code) THEN {} ELSE {"Merchant code is required"})
    ELSE IF a.scheme = "fonepay"
    THEN (IF PyTruthy(a.merchant_id) THEN {} ELSE {"Merchant ID is required"})
         \cup (IF PyTruthy(a.terminal_id) THEN {} ELSE {"Terminal ID is required"})
    ELSE {}

\* `elif int(amount) <= 0` is reached with a string that int() rejects: int()
\* parses decimal digits only (of the strings that pass isdigit; signs, blanks
\* and underscores do not pass it).
IntRaises(amount) ==
    /\ PyTruthy(amount)
    /\ amount.t = "str"
    /\ isdigit(amount.s)
    /\ \E i \in 1..Len(amount.s) : ~IsDecimal(amount.s[i])

\* IPNAPI.verify_transaction_parameters
verify_transaction_parameters(a) ==
    IF IntRaises(a.amount)
    THEN Raises("ValueError")
    ELSE Returns(AmountErrors(a.amount) \cup SchemeErrors(a) = {})

\* A faulty variant of MessageDelivered: any message field is taken for the
\* success message.
MessagePresent(body) == "message" \in DOMAIN body

\* `response.get('message') == expected_message`
MessageDelivered(body) == Get(body, "message", PyNone) = PyStr(expected_message)

\* IPNAPI.send_transaction: the payload, the POST, the check of the message.
send_transaction(a, r) ==
    IF build_payload(a).kind = "raised" THEN build_payload(a)
    ELSE IF r.raises THEN Raises("RequestException")
    ELSE IF r.type # "dict" THEN Raises("AttributeError")
    ELSE IF MessageDelivered(r.body) THEN Returns(r.body)
    ELSE Raises("Exception")

\* --------------------------------------------------------- dps_api.py: DPSAPI

\* A faulty variant of FieldInvalid: only the presence of the field is tested.
FieldNeverInvalid(v) == FALSE

\* `not key or not isinstance(key, str)`
FieldInvalid(v) == ~PyTruthy(v) \/ v.t # "str"

\* DPSAPI._validate_dps_response raises.
validate_dps_response_raises(r) ==
    \/ r.type # "dict"
    \/ {"key", "host"} \ DOMAIN r.body # {}
    \/ FieldInvalid(r.body.key)
    \/ FieldInvalid(r.body.host)

\* DPSAPI._log_response_safely raises: `key[:20]` on a key that is an int.
log_response_safely_raises(r) ==
    /\ r.type = "dict"
    /\ "key" \in DOMAIN r.body
    /\ PyTruthy(r.body.key)
    /\ r.body.key.t = "int"

\* DPSAPI.send_dps_request: the POST, the log, the validation.
send_dps_request(r) ==
    IF r.raises THEN Raises("RequestException")
    ELSE IF log_response_safely_raises(r) THEN Raises("TypeError")
    ELSE IF validate_dps_response_raises(r) THEN Raises("Exception")
    ELSE Returns(r.body)

\* DPSAPI.verify_dps_response
verify_dps_response(r) == Returns(~validate_dps_response_raises(r))

\* ------------------------------------------------ IPNAPI and DPSAPI: inputs

Schemes == {"nchl", "fonepay", "esewa"}

\* An amount: every string over AmountChars of at most MaxAmountLen
\* characters, None, an int.
Amounts ==
    {PyStr(chars) : chars \in UNION {[1..n -> AmountChars] : n \in 0..MaxAmountLen}}
    \cup {PyNone, PyInt(0), PyInt(10)}

\* A merchant code, merchant id, store id or terminal id.
FieldValues == {PyNone, PyStr(<<>>), PyStr(<<"s">>)}

\* **kwargs: none, a payload key of the other scheme, a None entry.
NoKwargs == [k \in {} |-> PyNone]

Kwargs ==
    {NoKwargs} \cup {[k \in {name} |-> v] :
                        name \in {"merchantId", "storeId", "remarks"},
                        v \in {PyNone, PyStr(<<"s">>)}}

IpnArgs ==
    [ scheme : Schemes, amount : Amounts, merchant_code : FieldValues,
      merchant_id : FieldValues, store_id : FieldValues,
      terminal_id : FieldValues, kwargs : Kwargs ]

\* The calls of send_nchl_transaction and send_fonepay_transaction's kind:
\* an amount in digits, no extra keyword.
SendArgs ==
    {a \in IpnArgs : a.amount = PyStr(<<"1", "0">>) /\ a.kwargs = NoKwargs}

\* What the POST of send_transaction gives: a failed request, a JSON list, a
\* dict without message, and dicts whose message is the success message, the
\* same with a capital, a failure, an empty string, None.
IpnReplies ==
    LET Messages == { PyStr(expected_message),
                      PyStr([expected_message EXCEPT ![1] = "N"]),
                      PyStr(<<"f", "a", "i", "l", "e", "d">>),
                      PyStr(<<>>),
                      PyNone }
    IN  {Reply(TRUE, "none", NoBody), Reply(FALSE, "list", NoBody),
         Reply(FALSE, "dict", [status_code |-> PyInt(200)])}
        \cup {Reply(FALSE, "dict", [message |-> m]) : m \in Messages}

\* What the POST of send_dps_request gives, or a caller hands to
\* verify_dps_response: a failed request, a JSON list, None, and dicts in
\* which key and host are each missing, None, "", a non-empty str or an int.
DpsReplies ==
    LET DpsValues == {PyNone, PyStr(<<>>), PyStr(<<"k">>), PyInt(1)}
        DpsBodies ==
            UNION { { [k \in D \cup {"status_code"} |->
                         IF k = "status_code" THEN PyInt(200) ELSE f[k]] :
                      f \in [D -> DpsValues] } : D \in SUBSET {"key", "host"} }
    IN  {Reply(TRUE, "none", NoBody), Reply(FALSE, "list", NoBody),
         Reply(FALSE, "NoneType", NoBody)}
        \cup {Reply(FALSE, "dict", b) : b \in DpsBodies}

\* ------------------------- tms_page.py: add_merchant, assign_ipn_to_merchant

\* The toast messages of class TMSLocators.
TMSLocators ==
    [ SUCCESS_TOAST |->
        << "M", "e", "r", "c", "h", "a", "n", "t", " ", "c", "r", "e",
           "a", "t", "e", "d", " ", "s", "u", "c", "c", "e", "s", "s",
           "f", "u", "l", "l", "y" >>,
      MERCHANT_EXISTS_TOAST |->
        << "M", "e", "r", "c", "h", "a", "n", "t", " ", "a", "l", "r",
           "e", "a", "d", "y", " ", "e", "x", "i", "s", "t", "s" >>,
      ACCOUNT_ASSOCIATED_DIFFERENT_PAN_TOAST |->
        << "T", "h", "i", "s", " ", "a", "c", "c", "o", "u", "n", "t",
           " ", "n", "u", "m", "b", "e", "r", " ", "i", "s", " ", "a",
           "l", "r", "e", "a", "d", "y", " ", "a", "s", "s", "o", "c",
           "i", "a", "t", "e", "d", " ", "w", "i", "t", "h", " ", "a",
           " ", "d", "i", "f", "f", "e", "r", "e", "n", "t", " ", "P",
           "A", "N" >>,
      TOAST_ASSIGN_IDENTIFIERS |->
        << "i", "d", "e", "n", "t", "i", "f", "i", "e", "r", "s", " ",
           "a", "d", "d", "e", "d" >>,
      TOAST_ASSIGN_SUCCESS |->
        << "d", "e", "v", "i", "c", "e", " ", "a", "s", "s", "i", "g",
           "n", "e", "d", " ", "s", "u", "c", "c", "e", "s", "s", "f",
           "u", "l", "l", "y" >> ]

\* What the toast of the TMS portal can say: the known messages, alone, inside
\* a longer text and in another case, and other messages.
TmsToastTexts ==
    { << "M", "e", "r", "c", "h", "a", "n", "t", " ", "c", "r", "e",
         "a", "t", "e", "d", " ", "s", "u", "c", "c", "e", "s", "s",
         "f", "u", "l", "l", "y" >>,
      << "M", "e", "r", "c", "h", "a", "n", "t", " ", "c", "r", "e",
         "a", "t", "e", "d", " ", "s", "u", "c", "c", "e", "s", "s",
         "f", "u", "l", "l", "y", "." >>,
      << "m", "e", "r", "c", "h", "a", "n", "t", " ", "c", "r", "e",
         "a", "t", "e", "d", " ", "s", "u", "c", "c", "e", "s", "s",
         "f", "u", "l", "l", "y" >>,
      << "M", "e", "r", "c", "h", "a", "n", "t", " ", "a", "l", "r",
         "e", "a", "d", "y", " ", "e", "x", "i", "s", "t", "s" >>,
      << "E", "r", "r", "o", "r", ":", " ", "M", "e", "r", "c", "h",
         "a", "n", "t", " ", "a", "l", "r", "e", "a", "d", "y", " ",
         "e", "x", "i", "s", "t", "s" >>,
      << "M", "E", "R", "C", "H", "A", "N", "T", " ", "A", "L", "R",
         "E", "A", "D", "Y", " ", "E", "X", "I", "S", "T", "S" >>,
      << "T", "h", "i", "s", " ", "a", "c", "c", "o", "u", "n", "t",
         " ", "n", "u", "m", "b", "e", "r", " ", "i", "s", " ", "a",
         "l", "r", "e", "a", "d", "y", " ", "a", "s", "s", "o", "c",
         "i", "a", "t", "e", "d", " ", "w", "i", "t", "h", " ", "a",
         " ", "d", "i", "f", "f", "e", "r", "e", "n", "t", " ", "P",
         "A", "N" >>,
      << "I", "n", "v", "a", "l", "i", "d", " ", "p", "h", "o", "n",
         "e", " ", "n", "u", "m", "b", "e", "r" >>,
      <<  >>,
      << "i", "d", "e", "n", "t", "i", "f", "i", "e", "r", "s", " ",
         "a", "d", "d", "e", "d" >>,
      << "T", "e", "r", "m", "i", "n", "a", "l", " ", "i", "d", "e",
         "n", "t", "i", "f", "i", "e", "r", "s", " ", "a", "d", "d",
         "e", "d" >>,
      << "I", "d", "e", "n", "t", "i", "f", "i", "e", "r", "s", " ",
         "A", "d", "d", "e", "d" >>,
      << "d", "e", "v", "i", "c", "e", " ", "a", "s", "s", "i", "g",
         "n", "e", "d", " ", "s", "u", "c", "c", "e", "s", "s", "f",
         "u", "l", "l", "y" >>,
      << "D", "e", "v", "i", "c", "e", " ", "i", "s", " ", "a", "l",
         "r", "e", "a", "d", "y", " ", "a", "s", "s", "i", "g", "n",
         "e", "d" >> }

\* What capture_tms_toast gives: the dict of a captured toast or the failure
\* dict.
TmsToasts ==
    {[success |-> TRUE, text |-> t] : t \in TmsToastTexts}
        \cup {[success |-> FALSE, error |-> NoToastFound]}

\* A strict variant of add_merchant: an existing merchant is a failure.
add_merchant_strict(toast) ==
    [success |-> toast.success /\ Contains(TMSLocators.SUCCESS_TOAST, toast.text),
     toast_result |-> toast]

\* add_merchant(merchant_data) from the toast on: the dict it returns.
add_merchant(toast) ==
    LET text == toast.text
        is_success ==
            IF toast.success
            THEN IF Contains(TMSLocators.SUCCESS_TOAST, text) THEN TRUE
                 ELSE IF Contains(TMSLocators.MERCHANT_EXISTS_TOAST, text) THEN TRUE
                 ELSE IF Contains(TMSLocators.ACCOUNT_ASSOCIATED_DIFFERENT_PAN_TOAST, text)
                      THEN FALSE
                 ELSE FALSE
            ELSE FALSE
    IN  [success |-> is_success, toast_result |-> toast]

\* assign_ipn_to_merchant(ipn_serial, terminal_data) from the toast on.
assign_ipn_to_merchant(toast) ==
    LET text == toast.text
        is_success ==
            IF toast.success
            THEN IF \/ Contains(TMSLocators.TOAST_ASSIGN_IDENTIFIERS, text)
                    \/ Contains(TMSLocators.TOAST_ASSIGN_SUCCESS, text)
                 THEN TRUE
                 ELSE TRUE
            ELSE FALSE
    IN  [success |-> is_success, toast_result |-> toast]

\* ------------------------------------------------ helpers.py: generate_imei

\* The number of random digits generate_imei draws.
ImeiBaseLen == 14

\* sum(iterable) of a list of numbers
RECURSIVE sum(_)
sum(numbers) ==
    IF numbers = <<>> THEN 0
    ELSE numbers[1] + sum(SubSeq(numbers, 2, Len(numbers)))

\* generate_imei() when the random digits drawn are imei_base.
generate_imei(imei_base) ==
    LET digits_of(n) == [i \in 1..Len(n) |-> int(<<n[i]>>)]
        \* digits[-first::-2]
        FromEnd(digits, first) ==
            [j \in 1..((Len(digits) - first + 2) \div 2) |->
                digits[Len(digits) - first + 1 - 2 * (j - 1)]]
        luhn_checksum(number) ==
            LET digits == digits_of(number)
                odd_digits == FromEnd(digits, 1)
                even_digits == FromEnd(digits, 2)
                doubled == [j \in 1..Len(even_digits) |->
                               sum(digits_of(DigitsOf(even_digits[j] * 2)))]
            IN  (sum(odd_digits) + sum(doubled)) % 10
        check_digit == (10 - luhn_checksum(imei_base)) % 10
    IN  imei_base \o DigitsOf(check_digit)

\* ------------------------------------------------ IPNAPI and DPSAPI: actions

CallBuildPayload ==
    /\ method = "none"
    /\ \E a \in IpnArgs :
         /\ args' = a
         /\ ended' = build_payload(a)
    /\ method' = "_build_payload"
    /\ UNCHANGED reply
    /\ UNCHANGED otherThanApi

CallVerifyTransactionParameters ==
    /\ method = "none"
    /\ \E a \in IpnArgs :
         /\ a.kwargs = NoKwargs
         /\ args' = a
         /\ ended' = verify_transaction_parameters(a)
    /\ method' = "verify_transaction_parameters"
    /\ UNCHANGED reply
    /\ UNCHANGED otherThanApi

CallSendTransaction ==
    /\ method = "none"
    /\ \E a \in SendArgs, r \in IpnReplies :
         /\ args' = a
         /\ reply' = IF build_payload(a).kind = "raised" THEN NoReply ELSE r
         /\ ended' = send_transaction(a, r)
    /\ method' = "send_transaction"
    /\ UNCHANGED otherThanApi

CallSendDpsRequest ==
    /\ method = "none"
    /\ \E r \in DpsReplies :
         /\ r.type # "NoneType"
         /\ reply' = r
         /\ ended' = send_dps_request(r)
    /\ method' = "send_dps_request"
    /\ UNCHANGED args
    /\ UNCHANGED otherThanApi

\* verify_dps_response(response, serial_number) on any value a caller holds.
CallVerifyDpsResponse ==
    /\ method = "none"
    /\ \E r \in DpsReplies :
         /\ ~r.raises
         /\ reply' = r
         /\ ended' = verify_dps_response(r)
    /\ method' = "verify_dps_response"
    /\ UNCHANGED args
    /\ UNCHANGED otherThanApi

\* add_merchant: a step of the form raises (and the method re-raises), or the
\* form was submitted and the toast is mapped.
CallAddMerchant ==
    /\ method = "none"
    /\ \E formRaises \in BOOLEAN, toast \in TmsToasts :
         /\ reply' = Reply(formRaises, "toast", IF formRaises THEN NoBody ELSE toast)
         /\ ended' = IF formRaises THEN Raises("Exception")
                     ELSE Returns(add_merchant(toast))
    /\ method' = "add_merchant"
    /\ UNCHANGED args
    /\ UNCHANGED otherThanApi

\* assign_ipn_to_merchant: the same shape.
CallAssignIpnToMerchant ==
    /\ method = "none"
    /\ \E formRaises \in BOOLEAN, toast \in TmsToasts :
         /\ reply' = Reply(formRaises, "toast", IF formRaises THEN NoBody ELSE toast)
         /\ ended' = IF formRaises THEN Raises("Exception")
                     ELSE Returns(assign_ipn_to_merchant(toast))
    /\ method' = "assign_ipn_to_merchant"
    /\ UNCHANGED args
    /\ UNCHANGED otherThanApi

\* generate_imei(): random.randint draws each of the fourteen digits.
CallGenerateImei ==
    /\ method = "none"
    /\ \E imei_base \in [1..ImeiBaseLen -> {"1", "8"}] :
         ended' = Returns(PyStr(generate_imei(imei_base)))
    /\ method' = "generate_imei"
    /\ UNCHANGED <<args, reply>>
    /\ UNCHANGED otherThanApi

\* The caller goes on with what the method returned or raised.
ApiCallerResumes ==
    /\ method # "none"
    /\ method' = "none"
    /\ args' = NoBody
    /\ reply' = NoReply
    /\ ended' = NoOutcome
    /\ UNCHANGED otherThanApi

ApiNext ==
    \/ CallBuildPayload
    \/ CallVerifyTransactionParameters
    \/ CallSendTransaction
    \/ CallSendDpsRequest
    \/ CallVerifyDpsResponse
    \/ CallGenerateImei
    \/ CallAddMerchant
    \/ CallAssignIpnToMerchant
    \/ ApiCallerResumes

SpecApi == Init /\ [][ApiNext]_vars

\* ------------------------------------------- mongo_handler.py: MongoHandler

\* A faulty variant of AfterPing: is_connected is set as soon as the client
\* is made, before the ping.
AfterPingEager(ok, made, olddb) ==
    [ client |-> made, db |-> IF ok THEN made ELSE olddb,
      is_connected |-> TRUE, lastPing |-> IF ok THEN "ok" ELSE "failed" ]

\* _connect from `self.client = MongoClient(...)` on: the ping, and only after
\* it self.db and self.is_connected = True; a ping that raises leaves both.
AfterPing(ok, made, olddb) ==
    IF ok
    THEN [ client |-> made, db |-> made, is_connected |-> TRUE, lastPing |-> "ok" ]
    ELSE [ client |-> made, db |-> olddb, is_connected |-> FALSE, lastPing |-> "failed" ]

\* A faulty variant of LastConnectAttempt: the loop allows one attempt more.
LastConnectAttemptLate(k) == k = connect_max_retries + 1

\* `if attempt == max_retries:` in the handler of _connect_with_retry.
LastConnectAttempt(k) == k = connect_max_retries

\* One pass of _connect_with_retry's loop in which _connect raises before it
\* makes a client (no connection string: ValueError; MongoClient rejects the
\* URI): the loop does not catch it.  __init__ raises; a query method returns
\* its default or raises, and the handler is as it was.
ConnectRaisesEarly ==
    /\ mpc = "connecting"
    /\ mpc' = IF mop = "init" THEN "init_raised" ELSE "ready"
    /\ lastPing' = "none"
    /\ UNCHANGED <<mop, mattempt, client, db, is_connected>>
    /\ UNCHANGED otherThanMongo

\* One pass of the loop in which _connect makes a client and the ping raises
\* ServerSelectionTimeoutError or ConnectionFailure: the next attempt, or
\* after the last one the raise (out of __init__, or into the query method's
\* `except PyMongoError`).
ConnectPingFails ==
    /\ mpc = "connecting"
    /\ client < MaxClients
    /\ LET after == AfterPing(FALSE, client + 1, db) IN
         /\ client' = after.client
         /\ db' = after.db
         /\ is_connected' = after.is_connected
         /\ lastPing' = after.lastPing
    /\ IF LastConnectAttempt(mattempt)
       THEN /\ mpc' = IF mop = "init" THEN "init_raised" ELSE "ready"
            /\ UNCHANGED mattempt
       ELSE /\ mattempt' = mattempt + 1
            /\ UNCHANGED mpc
    /\ UNCHANGED mop
    /\ UNCHANGED otherThanMongo

\* One pass of the loop in which _connect succeeds: the handler is ready, and
\* the query that asked for the connection runs.
ConnectSucceeds ==
    /\ mpc = "connecting"
    /\ client < MaxClients
    /\ LET after == AfterPing(TRUE, client + 1, db) IN
         /\ client' = after.client
         /\ db' = after.db
         /\ is_connected' = after.is_connected
         /\ lastPing' = after.lastPing
    /\ mpc' = "ready"
    /\ UNCHANGED <<mop, mattempt>>
    /\ UNCHANGED otherThanMongo

\* A faulty variant of Query: the method queries self.db without looking at
\* is_connected.
QueryWithoutReconnect ==
    /\ mpc = "ready"
    /\ mop' = "query"
    /\ mattempt' = 0
    /\ mpc' = "ready"
    /\ UNCHANGED <<client, db, is_connected, lastPing>>
    /\ UNCHANGED otherThanMongo

\* A query method (find_device, get_all_collections, ...): it reconnects when
\* is_connected is false, and otherwise queries self.db.
Query ==
    /\ mpc = "ready"
    /\ mop' = "query"
    /\ mattempt' = 0
    /\ mpc' = IF is_connected THEN "ready" ELSE "connecting"
    /\ UNCHANGED <<client, db, is_connected, lastPing>>
    /\ UNCHANGED otherThanMongo

\* disconnect(): `if self.client:` close it and set is_connected = False.
disconnect ==
    /\ mpc = "ready"
    /\ mop' = "disconnect"
    /\ is_connected' = IF client # 0 THEN FALSE ELSE is_connected
    /\ UNCHANGED <<mpc, mattempt, client, db, lastPing>>
    /\ UNCHANGED otherThanMongo

MongoNext ==
    \/ ConnectRaisesEarly
    \/ ConnectPingFails
    \/ ConnectSucceeds
    \/ Query
    \/ disconnect

SpecMongo == Init /\ [][MongoNext]_vars

\* ------------------------------------------------------ tms_full_flow claims

\* C9 (as claimed): the toast text assign_ipn_to_merchant reports was read off
\* the page during that call, after the click on Assign, never during an
\* earlier step of the flow.
Cex_C9 ==
    LET assigned == Get(flow, "ipn_assignment_result", <<>>) IN
      ("toast_result" \in DOMAIN assigned /\ assigned.toast_result.success) =>
          toastReadIn = "assign_ipn"

\* ------------------------------------------------- capture_toast_message claims

AllSelectors == {toast_selectors[k] : k \in 1..Len(toast_selectors)}

PositionOf(sel) == CHOOSE k \in 1..Len(toast_selectors) : toast_selectors[k] = sel

\* The call in progress or just returned read a text from the page.
Matched == lastOutcome \in {"ok", "kw_ok"}

Returned == pc = "returned"

\* C1: entered on a usable page, capture_toast_message runs a bounded number
\* of probes and returns a dict whatever the driver answers (an exception
\* leaves the call only from the liveness check, which marks the object
\* closed); when no selector and no keyword matched, the dict has
\* success = False and a non-empty error.
Thm_C1 ==
    /\ pc = "raised" => isClosed
    /\ pc = "selectors" => idx \in 1..Len(toast_selectors)
    /\ pc = "keywords" => idx \in 1..Len(success_texts)
    /\ Returned => "success" \in DOMAIN result
    /\ (Returned /\ ~Matched) =>
          /\ result.success = FALSE
          /\ "error" \in DOMAIN result
          /\ result.error # ""

\* C1 witness: every selector failed (one of them on the text read), a keyword
\* lookup raised, and the call returned the failure dict.
Wit_C1 ==
    /\ Returned
    /\ lastOutcome = "kw_error"
    /\ readFails > 0
    /\ failed = AllSelectors
    /\ result.success = FALSE

\* C2 (as claimed): success = True only when the text read from the matched
\* element is non-empty after trimming.
Cex_C2 ==
    (Returned /\ result.success) => Strip(OrEmpty(lastRead)) # <<>>

Cex_C4 ==
    Returned => waited <= timeout

\* C5: a successful result names the earliest candidate, in the order of
\* toast_selectors, whose wait and read both succeeded (every candidate before
\* it was tried and failed), and names a keyword only when every selector
\* candidate was tried and failed.
Thm_C5 ==
    (Returned /\ result.success) =>
        IF result.selector \in AllSelectors
        THEN failed = {toast_selectors[j] : j \in 1..(PositionOf(result.selector) - 1)}
        ELSE /\ \E k \in 1..Len(keyword_labels) : result.selector = keyword_labels[k]
             /\ failed = AllSelectors

\* C5 witness: the Toastify candidates failed and the role=alert candidate is
\* the one reported.
Wit_C5 ==
    /\ Returned
    /\ result.success
    /\ result.selector = "[role='alert']"
    /\ Cardinality(failed) = 3

\* C6: a failed text read abandons that candidate only: right after it the
\* call is still running, on the next candidate or on the keyword search, and
\* a failure dict is returned only when every selector candidate was tried.
Thm_C6 ==
    /\ lastOutcome \in {"detached", "read_timeout"} =>
          /\ pc \in {"selectors", "keywords"}
          /\ pc = "selectors" => (idx > 1 /\ Candidate(idx - 1) \in failed)
          /\ pc = "keywords" => (idx = 1 /\ failed = AllSelectors)
    /\ (Returned /\ ~result.success) => failed = AllSelectors

\* C6 witness: a candidate's text read failed and a later candidate matched.
Wit_C6 ==
    /\ Returned
    /\ result.success
    /\ lastOutcome = "ok"
    /\ readFails > 0

\* C7 (as claimed): on success, contains_expected is true exactly when
\* expected_text is absent or is, ignoring case, a substring of the returned
\* (trimmed) text.
Cex_C7 ==
    (Returned /\ result.success) =>
        (result.contains_expected <=>
            (expected = None \/ Contains(Lower(expected), Lower(result.text))))

\* C8: a captured text that does not contain expected_text still gives
\* success = True with contains_expected = False, also through
\* verify_toast_message; the mismatch neither fails nor raises.
Thm_C8 ==
    (/\ pc \in {"returned", "raised"}
     /\ Matched
     /\ Truthy(expected)
     /\ ~Contains(Lower(expected), Lower(OrEmpty(lastRead)))) =>
        /\ Returned
        /\ result.success = TRUE
        /\ result.contains_expected = FALSE
        /\ verify_toast_message(result).success = TRUE
        /\ verify_toast_message(result).contains_expected = FALSE

\* C8 witness: a non-empty text was captured that misses expected_text.
Wit_C8 ==
    /\ Returned
    /\ Matched
    /\ Truthy(expected)
    /\ result.success
    /\ result.text # <<>>
    /\ ~result.contains_expected

\* C10: a call made after a successful one, on a page where nothing matches
\* any more, returns success = False without any text; and the text of every
\* successful result is the text read during that very call.
Thm_C10 ==
    /\ (Returned /\ prevSuccess /\ ~Matched) =>
          /\ result.success = FALSE
          /\ "text" \notin DOMAIN result
    /\ (Returned /\ result.success) =>
          /\ Matched
          /\ result.text = Strip(OrEmpty(lastRead))

\* C10 witness: the call before captured a toast, this one found no selector
\* and no keyword and returned the failure dict.
Wit_C10 ==
    /\ Returned
    /\ prevSuccess
    /\ failed = AllSelectors
    /\ idx = Len(success_texts)
    /\ lastOutcome = "kw_not_visible"
    /\ ~result.success

\* C11 (as claimed): every return of capture_toast_message comes after a
\* screenshot was attached during that call.
Cex_C11 ==
    Returned => shot

\* A call of capture_toast_message starts: the step that leaves "idle".
CallStarts == pc = "idle" /\ pc' # "idle"

\* C12: a call made while the page does not answer, or on an object already
\* marked closed, raises and returns no dict; _is_closed is never reset; and a
\* call on an object marked closed raises without asking the page.
Thm_C12 ==
    [][ /\ (CallStarts /\ (isClosed \/ ~pageUsable)) =>
              /\ pc' = "raised"
              /\ result' = NoResult
              /\ isClosed'
        /\ (CallStarts /\ isClosed) => ~probed'
        /\ isClosed => isClosed' ]_vars

\* C12 witness: the object was marked closed, the page answers again, and a
\* later call raised without asking the page.
Wit_C12 ==
    /\ pc = "raised"
    /\ isClosed
    /\ pageUsable
    /\ ~probed

\* ------------------------------------------------- retry and BaseAPI claims

\* The invocations the wrapper has made of the wrapped function.
Invocations == Len(outcomes)

\* C13: the wrapper invokes the function at most max_attempts times; every
\* invocation but the latest raised an exception in E, so the first one that
\* does not ends the wrapper with its own outcome (its value is returned; an
\* exception outside E is not caught and leaves the wrapper); and when all
\* max_attempts invocations raised in E the wrapper raises the exception of
\* the last of them.
Thm_C13 ==
    /\ Invocations <= max_attempts
    /\ \A j \in 1..(Invocations - 1) : outcomes[j] = "in_E"
    /\ rpc = "calling" =>
          /\ Invocations = attempt - 1
          /\ \A j \in 1..Invocations : outcomes[j] = "in_E"
    /\ rpc = "returned" =>
          /\ Invocations >= 1
          /\ outcomes[Invocations] = "value"
          /\ rresult = [kind |-> "value", of |-> Invocations]
    /\ rpc = "raised" =>
          /\ Invocations >= 1
          /\ outcomes[Invocations] # "value"
          /\ rresult = [kind |-> outcomes[Invocations], of |-> Invocations]
          /\ outcomes[Invocations] = "in_E" =>
                /\ Invocations = max_attempts
                /\ last_exception = max_attempts
    /\ (Invocations = max_attempts /\ \A j \in 1..Invocations : outcomes[j] = "in_E")
          => (rpc = "raised" /\ rresult.of = max_attempts)

\* C13 witness: with max_attempts = 4, two invocations raised in E and the
\* third returned; the wrapper returned its value with one attempt unused.
Wit_C13 ==
    /\ rpc = "returned"
    /\ site = "decorated"
    /\ max_attempts = 4
    /\ Invocations = 3
    /\ rresult.of = 3

\* C14 (as claimed): each wait is larger than the one before it, and the
\* ratio of consecutive waits is one constant.
Cex_C14 ==
    \A k \in 2..Len(sleeps) :
        /\ sleeps[k] > sleeps[k - 1]
        /\ k >= 3 => sleeps[k] * sleeps[k - 2] = sleeps[k - 1] * sleeps[k - 1]

\* C15 (as claimed): a request whose every attempt failed with a
\* RequestException was attempted at most max_retries times.
Cex_C15 ==
    (site = "base_api" /\ rpc = "raised" /\ rresult.kind = "in_E")
        => Invocations <= max_retries

\* ------------------------------------------------- IPNAPI and DPSAPI claims

\* C16: send_transaction ends by returning or by raising, and it returns only
\* when the POST gave a dict whose message is the str "notification delivered
\* successfully", character for character; what it returns is that dict.  A
\* failed request, a reply that is no dict, a missing or different message
\* and an unsupported scheme all end in an exception.
Thm_C16 ==
    method = "send_transaction" =>
        /\ ended.kind \in {"returned", "raised"}
        /\ ended.kind = "returned" =>
              /\ ~reply.raises
              /\ reply.type = "dict"
              /\ "message" \in DOMAIN reply.body
              /\ reply.body.message.t = "str"
              /\ reply.body.message.s = expected_message
              /\ ended.value = reply.body
        /\ (reply.raises \/ reply.type # "dict") => ended.kind = "raised"

\* C16 witness: the reply's message differs from the expected one by its
\* capital letter only, and send_transaction raised.
Wit_C16 ==
    /\ method = "send_transaction"
    /\ reply.type = "dict"
    /\ "message" \in DOMAIN reply.body
    /\ reply.body.message.s # expected_message
    /\ Len(reply.body.message.s) = Len(expected_message)
    /\ ended.kind = "raised"

\* The payload keys of a scheme and the parameter each one carries.
SchemeFields(a) ==
    IF a.scheme = "nchl"
    THEN [storeId |-> a.store_id, terminalId |-> a.terminal_id,
          merchantCode |-> a.merchant_code]
    ELSE [merchantId |-> a.merchant_id, terminalId |-> a.terminal_id]

\* The payload keys of the other scheme.
ForeignKeys(a) ==
    IF a.scheme = "nchl" THEN {"merchantId"} ELSE {"storeId", "merchantCode"}

\* C17 (as claimed): the payload of a supported scheme holds the amount as a
\* str, each of the scheme's fields whose parameter is not None, and no key
\* of the other scheme; another scheme raises ValueError.
Cex_C17 ==
    method = "_build_payload" =>
        IF args.scheme \in {"nchl", "fonepay"}
        THEN /\ ended.kind = "returned"
             /\ "amount" \in DOMAIN ended.value
             /\ ended.value.amount.t = "str"
             /\ \A k \in DOMAIN SchemeFields(args) :
                   (k \in DOMAIN ended.value) <=> (SchemeFields(args)[k] # PyNone)
             /\ ForeignKeys(args) \cap DOMAIN ended.value = {}
        ELSE ended = Raises("ValueError")

\* C17 (amended): the payload holds the amount as a str; every other key is a
\* field of the scheme or an extra keyword, with the keyword's value when
\* there is one and the parameter's otherwise, and it is in the payload
\* exactly when that value is not None; so without extra keywords no key of
\* the other scheme is in it.  Another scheme raises ValueError.
Thm_C17 ==
    method = "_build_payload" =>
        IF args.scheme \in {"nchl", "fonepay"}
        THEN /\ ended.kind = "returned"
             /\ "amount" \in DOMAIN ended.value
             /\ ended.value.amount = str(args.amount)
             /\ ended.value.amount.t = "str"
             /\ DOMAIN ended.value \subseteq
                   {"amount"} \cup DOMAIN SchemeFields(args) \cup DOMAIN args.kwargs
             /\ \A k \in DOMAIN SchemeFields(args) \cup DOMAIN args.kwargs :
                   LET v == IF k \in DOMAIN args.kwargs
                            THEN args.kwargs[k] ELSE SchemeFields(args)[k]
                   IN  /\ (k \in DOMAIN ended.value) <=> (v # PyNone)
                       /\ k \in DOMAIN ended.value => ended.value[k] = v
             /\ args.kwargs = NoKwargs =>
                   ForeignKeys(args) \cap DOMAIN ended.value = {}
        ELSE ended = Raises("ValueError")

\* C17 witness: an nchl payload built from an int amount, with a store id, no
\* terminal id, and the extra keyword merchantId.
Wit_C17 ==
    /\ method = "_build_payload"
    /\ args.scheme = "nchl"
    /\ args.amount.t = "int"
    /\ args.store_id = PyStr(<<"s">>)
    /\ args.terminal_id = PyNone
    /\ "merchantId" \in DOMAIN args.kwargs
    /\ ended.kind = "returned"
    /\ DOMAIN ended.value = {"amount", "storeId", "merchantCode", "merchantId"}

\* C18 (as claimed): verify_transaction_parameters never raises; it returns
\* true when the amount is a positive string of digits and the scheme's
\* fields are non-empty, and false in every other case.
Cex_C18 ==
    LET amount == args.amount
        PositiveDigits ==
            /\ amount.t = "str"
            /\ amount.s # <<>>
            /\ \A i \in 1..Len(amount.s) : IsDecimal(amount.s[i])
            /\ int(amount.s) > 0
        RequiredPresent ==
            CASE args.scheme = "nchl" ->
                    /\ PyTruthy(args.store_id)
                    /\ PyTruthy(args.terminal_id)
                    /\ PyTruthy(args.merchant_code)
              [] args.scheme = "fonepay" ->
                    /\ PyTruthy(args.merchant_id)
                    /\ PyTruthy(args.terminal_id)
              [] OTHER -> TRUE
    IN  method = "verify_transaction_parameters" =>
            /\ ended.kind = "returned"
            /\ ended.value <=> (PositiveDigits /\ RequiredPresent)

\* C19: send_dps_request returns (the response itself) only for a response
\* that passes the check and raises for every other one and for a failed
\* request; verify_dps_response never raises and returns whether the
\* response passes the same check.
Thm_C19 ==
    LET DpsValid ==
            /\ reply.type = "dict"
            /\ "key" \in DOMAIN reply.body
            /\ "host" \in DOMAIN reply.body
            /\ reply.body.key.t = "str" /\ reply.body.key.s # <<>>
            /\ reply.body.host.t = "str" /\ reply.body.host.s # <<>>
    IN  /\ method = "send_dps_request" =>
              /\ ended.kind \in {"returned", "raised"}
              /\ ended.kind = "returned" <=> (~reply.raises /\ DpsValid)
              /\ ended.kind = "returned" => ended.value = reply.body
        /\ method = "verify_dps_response" =>
              /\ ended.kind = "returned"
              /\ ended.value <=> DpsValid

\* C19 witness: the response has a key and a host, the host is the empty
\* string, and send_dps_request raised.
Wit_C19 ==
    /\ method = "send_dps_request"
    /\ reply.type = "dict"
    /\ DOMAIN reply.body = {"key", "host", "status_code"}
    /\ reply.body.key = PyStr(<<"k">>)
    /\ reply.body.host = PyStr(<<>>)
    /\ ended.kind = "raised"

\* ----------------------------------------------------- MongoHandler claims

\* C20: whenever is_connected is true, client and db are set, db is the
\* database of the current client, and the ping of the latest connection
\* attempt succeeded; and when disconnect() has returned, is_connected is
\* false until the next operation.
Thm_C20 ==
    /\ is_connected =>
          /\ client # 0
          /\ db # 0
          /\ db = client
          /\ lastPing = "ok"
    /\ (mpc = "ready" /\ mop = "disconnect") => ~is_connected
    /\ mpc = "ready" => client # 0

\* C20 witness: after a disconnect a query reconnected, its first attempt's
\* ping failed and its second succeeded.
Wit_C20 ==
    /\ mpc = "ready"
    /\ mop = "query"
    /\ mattempt = 1
    /\ is_connected
    /\ client = 3

\* C27: a visibility check or a text read that raises in the keyword loop
\* ends the loop at that keyword: the call has returned, with success = False
\* and the error of the final raise, and no keyword after it was checked
\* (whatever the page shows for them).
Thm_C27 ==
    lastOutcome \in {"kw_error", "kw_read_error"} =>
        /\ Returned
        /\ result.success = FALSE
        /\ result.error = NoToastFound
        /\ failed = AllSelectors
        /\ idx \in 1..Len(success_texts)

\* C27 witness: the text read of the first keyword raised, eight keywords
\* were left unchecked, and the call returned the failure dict.
Wit_C27 ==
    /\ Returned
    /\ lastOutcome = "kw_read_error"
    /\ idx = 1
    /\ Len(success_texts) - idx = 8
    /\ result.success = FALSE

\* C26: the loop variable of _connect_with_retry never passes max_retries
\* (at most max_retries + 1 attempts); the loop ends at the first attempt
\* whose ping succeeds; an attempt that fails on the connection is followed
\* by another one unless it was attempt max_retries + 1, after which the
\* error leaves the loop; an attempt that raises anything else ends the loop
\* at once.
Thm_C26 ==
    [][ mpc = "connecting" =>
          /\ mattempt' \in 0..connect_max_retries
          /\ lastPing' = "ok" => (mpc' = "ready" /\ mattempt' = mattempt)
          /\ (lastPing' = "failed" /\ mattempt < connect_max_retries) =>
                (mpc' = "connecting" /\ mattempt' = mattempt + 1)
          /\ (lastPing' = "failed" /\ mattempt = connect_max_retries) =>
                (mpc' # "connecting" /\ mattempt' = mattempt)
          /\ lastPing' = "none" => (mpc' # "connecting" /\ mattempt' = mattempt)
      ]_vars

\* C26 witness: the constructor made max_retries + 1 attempts, every ping
\* failed, and the error left __init__.
Wit_C26 ==
    /\ mpc = "init_raised"
    /\ mattempt = connect_max_retries
    /\ lastPing = "failed"
    /\ client = connect_max_retries + 1
    /\ db = 0

\* C28 (as claimed): when a query operation has returned, the handler is
\* connected.
Cex_C28 ==
    (mpc = "ready" /\ mop = "query") => is_connected

\* C28 (amended): a query on a handler that is not connected first runs
\* _connect_with_retry; when the query has returned the handler is connected
\* exactly if the latest attempt's ping succeeded, and not connected when
\* every attempt failed; is_connected goes from true to false in disconnect
\* only.
Thm_C28 ==
    [][ /\ (mpc = "ready" /\ mop' = "query" /\ ~is_connected) => mpc' = "connecting"
        /\ (mpc' = "ready" /\ mop' = "query") => (is_connected' <=> lastPing' = "ok")
        /\ (is_connected /\ ~is_connected') => mop' = "disconnect"
      ]_vars

\* C28 witness: the handler was connected and then disconnected; the next
\* query made three attempts whose pings all failed and returned with the
\* handler still not connected.
Wit_C28 ==
    /\ mpc = "ready"
    /\ mop = "query"
    /\ ~is_connected
    /\ lastPing = "failed"
    /\ mattempt = connect_max_retries
    /\ db # 0
    /\ client = db + connect_max_retries + 1

\* ------------------------------------------------ generate_imei: claims

\* C23: generate_imei returns fifteen decimal digits that pass the Luhn
\* check: counted from the right, every second digit is doubled (and its two
\* digits added), and the total is a multiple of ten.
Cex_C23 ==
    method = "generate_imei" =>
        LET imei == ended.value.s
            digit(r) == int(<<imei[Len(imei) + 1 - r]>>)
            term(r) == IF r % 2 = 1 THEN digit(r)
                       ELSE IF 2 * digit(r) > 9 THEN 2 * digit(r) - 9
                       ELSE 2 * digit(r)
        IN  /\ ended.kind = "returned"
            /\ Len(imei) = ImeiBaseLen + 1
            /\ \A i \in 1..Len(imei) : IsDecimal(imei[i])
            /\ sum([r \in 1..Len(imei) |-> term(r)]) % 10 = 0

\* ------------------------- add_merchant, assign_ipn_to_merchant: claims

\* C22: add_merchant reports success when the captured toast contains
\* "Merchant created successfully" or "Merchant already exists"; it reports
\* no success when the text contains the account/PAN mismatch message, when
\* it contains none of the three messages, and when no toast was captured.
Thm_C22 ==
    (method = "add_merchant" /\ ended.kind = "returned") =>
        LET toast == reply.body
            has(message) == toast.success /\ Contains(message, toast.text)
            created == has(<<"M", "e", "r", "c", "h", "a", "n", "t", " ", "c", "r", "e", "a", "t", "e", "d",
                             " ", "s", "u", "c", "c", "e", "s", "s", "f", "u", "l", "l", "y">>)
            exists == has(<<"M", "e", "r", "c", "h", "a", "n", "t", " ", "a", "l", "r", "e", "a", "d", "y",
                            " ", "e", "x", "i", "s", "t", "s">>)
            mismatch == has(TMSLocators.ACCOUNT_ASSOCIATED_DIFFERENT_PAN_TOAST)
        IN  /\ created => ended.value.success
            /\ exists => ended.value.success
            /\ mismatch => ~ended.value.success
            /\ (~created /\ ~exists /\ ~mismatch) => ~ended.value.success
            /\ ~toast.success => ~ended.value.success
            /\ ended.value.toast_result = toast

\* C22 witness: the toast said that the merchant already exists, inside a
\* longer text, and add_merchant reported success.
Wit_C22 ==
    /\ method = "add_merchant"
    /\ ended.kind = "returned"
    /\ ended.value.success
    /\ reply.body.success
    /\ Len(reply.body.text) > Len(TMSLocators.MERCHANT_EXISTS_TOAST)
    /\ Contains(TMSLocators.MERCHANT_EXISTS_TOAST, reply.body.text)

\* C25: assign_ipn_to_merchant reports success only if a toast was captured
\* whose text contains "identifiers added" or "device assigned successfully".
Cex_C25 ==
    (method = "assign_ipn_to_merchant" /\ ended.kind = "returned" /\ ended.value.success) =>
        /\ reply.body.success
        /\ \/ Contains(TMSLocators.TOAST_ASSIGN_IDENTIFIERS, reply.body.text)
           \/ Contains(TMSLocators.TOAST_ASSIGN_SUCCESS, reply.body.text)

\* ------------------------------------------- state_manager.py: TestStateManager

\* get_failed_steps(): the keys are kept, as a set.
get_failed_steps == {k \in DOMAIN steps : steps[k] = "failed"}

\* get_summary(); the order of failed_step_names, the context and the
\* timestamps are left out.
get_summary ==
    LET total == Cardinality(DOMAIN steps)
        passed == Cardinality({k \in DOMAIN steps : steps[k] = "passed"})
        failed_count == total - passed   \* the local `failed`
    IN  [ total_steps       |-> total,
          passed_steps      |-> passed,
          failed_steps      |-> failed_count,
          failed_step_names |-> get_failed_steps,
          errors            |-> errors ]

\* record_step(step_name, status, error): the entry of step_name is set or
\* replaced; a truthy error is appended to errors. The steps are three of
\* those a test records, the statuses the three in use.
RecordStep ==
    /\ \E step_name \in {"Device Registration", "DPS Request", "TMS Portal Login"},
          status \in {"passed", "failed", "skipped"},
          error \in BOOLEAN :
         /\ error => Len(errors) < MaxErrors
         /\ steps' = [k \in DOMAIN steps \cup {step_name} |->
                         IF k = step_name THEN status ELSE steps[k]]
         /\ errors' = IF error THEN Append(errors, step_name) ELSE errors
    /\ summary' = NoResult
    /\ UNCHANGED otherThanState

GetSummary ==
    /\ summary = NoResult
    /\ summary' = get_summary
    /\ UNCHANGED <<steps, errors>>
    /\ UNCHANGED otherThanState

StateNext ==
    \/ RecordStep
    \/ GetSummary

SpecState == Init /\ [][StateNext]_vars

\* C30: get_summary reports failed_steps equal to the number of names in
\* failed_step_names, the steps whose latest status is failed.
Cex_C30 ==
    summary # NoResult =>
        /\ summary.failed_step_names = {k \in DOMAIN steps : steps[k] = "failed"}
        /\ summary.failed_steps = Cardinality(summary.failed_step_names)

\* ------------------------------------------------ config/__init__.py: Config

\* What config.yaml can be: missing, not YAML, empty (safe_load gives None),
\* a mapping with every section, a mapping without the urls section.
ConfigFiles ==
    LET full == [ active_environment |-> PyStr(<<"s", "t", "a", "g", "i", "n", "g">>),
                  urls |-> [admin_portal |-> PyStr(<<"u", "1">>)],
                  api |-> [max_retries |-> PyInt(3)] ]
    IN  { [exists |-> FALSE, parses |-> FALSE, content |-> PyNone],
          [exists |-> TRUE, parses |-> FALSE, content |-> PyNone],
          [exists |-> TRUE, parses |-> TRUE, content |-> PyNone],
          [exists |-> TRUE, parses |-> TRUE, content |-> full],
          [exists |-> TRUE, parses |-> TRUE,
           content |-> [active_environment |-> full.active_environment, api |-> full.api]] }

\* The environment variables _override_from_env reads: <<>> is unset.
Environments ==
    [ ENVIRONMENT : {<<>>, <<"p", "r", "o", "d">>},
      ADMIN_PORTAL_URL : {<<>>, <<"u", "2">>},
      MAX_RETRIES : {<<>>, <<"5">>, <<"a">>} ]

\* isinstance(value, dict): the str, int and None values carry their type.
IsDict(value) == "t" \notin DOMAIN value

\* _override_from_env() on the parsed content: the overrides are applied in
\* order until one raises (None is not subscriptable, a section is missing,
\* int() refuses the text).
override_from_env(content, env) ==
    LET step1 ==
            IF env.ENVIRONMENT = <<>> THEN [raises |-> FALSE, config |-> content]
            ELSE IF ~IsDict(content) THEN [raises |-> TRUE, config |-> content]
            ELSE [raises |-> FALSE,
                  config |-> Update(content, [active_environment |-> PyStr(env.ENVIRONMENT)])]
        step2 ==
            IF step1.raises \/ env.ADMIN_PORTAL_URL = <<>> THEN step1
            ELSE IF ~IsDict(step1.config) \/ "urls" \notin DOMAIN step1.config
                 THEN [raises |-> TRUE, config |-> step1.config]
            ELSE [raises |-> FALSE,
                  config |-> Update(step1.config,
                      [urls |-> Update(step1.config.urls,
                                       [admin_portal |-> PyStr(env.ADMIN_PORTAL_URL)])])]
        step3 ==
            IF step2.raises \/ env.MAX_RETRIES = <<>> THEN step2
            ELSE IF \/ \E i \in 1..Len(env.MAX_RETRIES) : ~IsDecimal(env.MAX_RETRIES[i])
                    \/ ~IsDict(step2.config)
                    \/ "api" \notin DOMAIN step2.config
                 THEN [raises |-> TRUE, config |-> step2.config]
            ELSE [raises |-> FALSE,
                  config |-> Update(step2.config,
                      [api |-> Update(step2.config.api,
                                      [max_retries |-> PyInt(int(env.MAX_RETRIES))])])]
    IN  step3

\* _load_config(): whether it raises, and the _config it leaves.
load_config(file, env) ==
    IF ~file.exists \/ ~file.parses THEN [raises |-> TRUE, config |-> PyNone]
    ELSE override_from_env(file.content, env)

\* get(key, default) with key.split('.') given as keys.
RECURSIVE Walk(_, _, _)
Walk(value, keys, default) ==
    IF keys = <<>> THEN value
    ELSE IF IsDict(value) /\ Head(keys) \in DOMAIN value
         THEN Walk(value[Head(keys)], Tail(keys), default)
    ELSE default

get(keys, default) ==
    IF config = PyNone \/ config = <<>> THEN default
    ELSE Walk(config, keys, default)

\* Config(): __new__ makes and loads the instance if the class has none, and
\* returns the instance of the class.
CallConfig ==
    /\ \E file \in ConfigFiles, env \in Environments :
         LET load == load_config(file, env)
         IN  IF instance = 0
             THEN /\ instance' = 1
                  /\ loads' = loads + 1
                  /\ config' = load.config
                  /\ loaded' = IF load.raises THEN "raised" ELSE "ok"
                  /\ configCall' = [call |-> "Config", default |-> PyNone,
                                    ended |-> IF load.raises THEN Raises("Exception")
                                              ELSE Returns(1)]
             ELSE /\ configCall' = [call |-> "Config", default |-> PyNone,
                                    ended |-> Returns(instance)]
                  /\ UNCHANGED <<instance, loads, config, loaded>>
    /\ UNCHANGED otherThanConfig

\* get(key, default) on the instance a Config() call returned.
CallGet ==
    /\ instance # 0
    /\ \E keys \in {<<"active_environment">>, <<"urls", "admin_portal">>,
                    <<"api", "max_retries">>, <<"api">>, <<"test", "headless">>,
                    <<"active_environment", "name">>},
          default \in {PyNone, PyInt(7)} :
         configCall' = [call |-> "get", default |-> default,
                        ended |-> Returns(get(keys, default))]
    /\ UNCHANGED <<instance, config, loaded, loads>>
    /\ UNCHANGED otherThanConfig

ConfigNext ==
    \/ CallConfig
    \/ CallGet

SpecConfig == Init /\ [][ConfigNext]_vars

\* C29: _load_config runs at most once; if it raised in the first Config()
\* call, that call raised, every later Config() call returns the stored
\* instance without raising, and get returns its default for every key.
Cex_C29 ==
    /\ loads <= 1
    /\ loaded = "raised" =>
         /\ instance = 1
         /\ configCall.call = "Config" =>
               configCall.ended \in {Raises("Exception"), Returns(1)}
         /\ configCall.call = "get" =>
               configCall.ended = Returns(configCall.default)

\* --------------------- device_registration_page.py: complete registration

\* The steps recorded in result["steps"], in the order they run.
RegSteps == <<"login", "navigate_to_device", "open_form", "fill_form", "submit_form">>

\* capture_success_toast(timeout): a wait or a read raises and the failure
\* dict is returned, or the toast body is read (raw, None for no text).
capture_success_toast(raises, raw) ==
    IF raises THEN [success |-> FALSE, error |-> "Exception"]
    ELSE LET toast_text == OrEmpty(raw)
             toast_text_clean == Strip(toast_text)
             device_added == << "d", "e", "v", "i", "c", "e", " ", "a", "d", "d", "e", "d" >>
         IN  [ success               |-> TRUE,
               text                  |-> toast_text_clean,
               original_text         |-> toast_text,
               contains_device_added |-> Contains(device_added, Lower(toast_text_clean)),
               is_exact_match        |-> Lower(toast_text_clean) = device_added ]

\* A variant of RegExcept: no handler, the exception leaves the method.
RegExceptReraise(res) ==
    [pc |-> "raised", result |-> res]

\* `except Exception as e:` around the whole flow: the result is completed
\* and returned (take_screenshot swallows its own failure).
RegExcept(res) ==
    [pc |-> "returned",
     result |-> Update(res, [overall_success |-> FALSE, error |-> "Exception"])]

\* complete_registration_with_toast(customer) is called.
CallCompleteRegistration ==
    /\ regStep = "idle"
    /\ \E c \in {<<"A", "n", "u", "g", "y", "a">>, <<"T", "e", "s", "t">>,
                 <<"B", "i", "t", "s", "k", "r", "a", "f", "t">>} :
         customer' = c
    /\ regResult' = [overall_success |-> FALSE, steps |-> <<>>, device_data |-> <<>>,
                     toast_result |-> <<>>]
    /\ regStep' = RegSteps[1]
    /\ regConfirm' = "none"
    /\ UNCHANGED otherThanReg

\* One of the five steps runs: it raises, or it is recorded true (fill_form
\* also stores the device data).
RegStep ==
    /\ \E i \in 1..Len(RegSteps) :
         /\ regStep = RegSteps[i]
         /\ \E raises \in BOOLEAN :
              IF raises
              THEN /\ regStep' = RegExcept(regResult).pc
                   /\ regResult' = RegExcept(regResult).result
              ELSE /\ regStep' = IF i < Len(RegSteps) THEN RegSteps[i + 1] ELSE "confirm"
                   /\ regResult' =
                        LET recorded == Update(regResult,
                                [steps |-> Update(regResult.steps,
                                                  [k \in {RegSteps[i]} |-> TRUE])])
                        IN  IF RegSteps[i] = "fill_form"
                            THEN Update(recorded, [device_data |-> [customer |-> customer]])
                            ELSE recorded
    /\ UNCHANGED <<customer, regConfirm>>
    /\ UNCHANGED otherThanReg

\* The confirmation button after the submit: whatever it does, and whatever
\* it raises, the flow goes on.
RegConfirmation ==
    /\ regStep = "confirm"
    /\ regConfirm' \in {"hidden", "clicked", "raised"}
    /\ regStep' = "capture"
    /\ UNCHANGED <<customer, regResult>>
    /\ UNCHANGED otherThanReg

\* Step 6: the toast is captured, overall_success is worked out and the
\* result returned.
RegCaptureToast ==
    /\ regStep = "capture"
    /\ \E raises \in BOOLEAN,
          raw \in { None,
             << "d", "e", "v", "i", "c", "e", " ", "a", "d", "d", "e", "d" >>,
             << "D", "e", "v", "i", "c", "e", " ", "A", "d", "d", "e", "d" >>,
             << " ", " ", "d", "e", "v", "i", "c", "e", " ", "a", "d", "d",
                "e", "d", " " >>,
             << "N", "e", "w", " ", "d", "e", "v", "i", "c", "e", " ", "a",
                "d", "d", "e", "d", "!" >>,
             << "D", "E", "V", "I", "C", "E", " ", "A", "D", "D", "E", "D" >>,
             << "d", "e", "v", "i", "c", "e", " ", " ", "a", "d", "d", "e",
                "d" >>,
             << "d", "e", "v", "i", "c", "e", " ", "r", "e", "m", "o", "v",
                "e", "d" >>,
             << "D", "e", "v", "i", "c", "e", " ", "a", "l", "r", "e", "a",
                "d", "y", " ", "e", "x", "i", "s", "t", "s" >>,
             << "a", "d", "d", "e", "d", " ", "d", "e", "v", "i", "c", "e" >>,
             << "D", "e", "v", "i", "c", "e", " ", "a", "d", "d", "e", "d",
                " ", "s", "u", "c", "c", "e", "s", "s", "f", "u", "l", "l",
                "y" >>,
             << "d", "e", "v", "i", "c", "e", " ", "a", "d", "d" >>,
             << " " >>,
             <<  >> } :
         LET toast_result == capture_success_toast(raises, raw)
             overall_success ==
                 /\ \A i \in 1..Len(RegSteps) : Get(regResult.steps, RegSteps[i], FALSE)
                 /\ Get(toast_result, "success", FALSE)
                 /\ Get(toast_result, "contains_device_added", FALSE)
         IN  regResult' = Update(regResult, [toast_result |-> toast_result,
                                             overall_success |-> overall_success])
    /\ regStep' = "returned"
    /\ UNCHANGED <<customer, regConfirm>>
    /\ UNCHANGED otherThanReg

\* The caller goes on with the result, or with the exception.
RegCallerResumes ==
    /\ regStep \in {"returned", "raised"}
    /\ regStep' = "idle"
    /\ customer' = <<>>
    /\ regResult' = NoResult
    /\ regConfirm' = "none"
    /\ UNCHANGED otherThanReg

RegNext ==
    \/ CallCompleteRegistration
    \/ RegStep
    \/ RegConfirmation
    \/ RegCaptureToast
    \/ RegCallerResumes

SpecReg == Init /\ [][RegNext]_vars

\* C21: complete_registration_with_toast never raises; the result it returns
\* has overall_success true exactly when login, navigate_to_device, open_form,
\* fill_form and submit_form are all recorded true, the toast was captured
\* and its text contains "device added" in any case; when a step raised,
\* overall_success is false and the result carries an error.
Thm_C21 ==
    /\ regStep # "raised"
    /\ regStep = "returned" =>
         LET recorded(name) == name \in DOMAIN regResult.steps /\ regResult.steps[name]
             toast == regResult.toast_result
             captured == "success" \in DOMAIN toast /\ toast.success
             said == \E i \in 1..Len(toast.text), j \in 1..Len(toast.text) :
                        Lower(SubSeq(toast.text, i, j)) = << "d", "e", "v", "i", "c", "e", " ", "a", "d", "d", "e", "d" >>
             \* the flow ended before the confirmation: one of the steps raised
             stepRaised == regConfirm = "none"
         IN  /\ regResult.overall_success \in BOOLEAN
             /\ regResult.overall_success <=>
                    /\ recorded("login") /\ recorded("navigate_to_device")
                    /\ recorded("open_form") /\ recorded("fill_form")
                    /\ recorded("submit_form")
                    /\ captured /\ said
             /\ stepRaised => (~regResult.overall_success /\ "error" \in DOMAIN regResult)

\* C21 witness: every step passed, the toast said "New device added!" or the
\* like in mixed case, and the result says overall_success.
Wit_C21 ==
    /\ regStep = "returned"
    /\ regResult.overall_success
    /\ regConfirm = "clicked"
    /\ regResult.toast_result.text # Lower(regResult.toast_result.text)
    /\ ~regResult.toast_result.is_exact_match

\* ------------------------- test_full_flow.py: the 9-step transaction test

\* The attribute of the page object that steps 1 and 2 read ("hardcoded
\* serial in page object"). DeviceRegistrationPage as it stands in
\* device_registration_page.py does not define it: with that class the read
\* in step 1 raises AttributeError and the test ends there.
test_serial_number == PyStr(<<"S", "N">>)

\* record_step(step_name, status, error) of the embedded TestStateManager.
record_step(st, step_name, status, error) ==
    [st EXCEPT !.steps = Update(@, [k \in {step_name} |-> status]),
               !.errors = IF error THEN Append(@, step_name) ELSE @]

\* get_step_status(step_name): None (here "None") for a step not recorded.
get_step_status(step_name) == Get(state.steps, step_name, "None")

\* self.state.context[key] = value for each key of `other`
SetContext(st, other) == [st EXCEPT !.context = Update(@, other)]

\* A variant of MissingData: step 8 does not look at the context.
MissingDataIgnored(context) == {}

\* missing_data of step 8: the keys whose context value is falsy.
MissingData(context) ==
    {key \in {"merchant_code", "merchant_id", "terminal_id", "store_id",
              "fonepay_terminal_id"} : ~PyTruthy(Get(context, key, PyNone))}

\* Step 1: the page object is made and its serial read; on an exception the
\* handler takes a screenshot (which can raise itself), records the failure
\* and ends the test with pytest.fail.
StepAdminLogin ==
    /\ testStep = "Admin Portal Login"
    /\ \E raises \in BOOLEAN, shotRaises \in BOOLEAN :
         /\ state' = IF raises /\ shotRaises THEN state
                     ELSE record_step(state, testStep,
                                      IF raises THEN "failed" ELSE "passed", raises)
         /\ testStep' = IF raises THEN "aborted" ELSE "Device Registration"
    /\ UNCHANGED sent
    /\ UNCHANGED otherThanTest

\* Step 2: complete_registration_with_toast does not raise and its result
\* is not looked at: the serial is stored and the step recorded passed.
StepDeviceRegistration ==
    /\ testStep = "Device Registration"
    /\ state' = record_step(SetContext(state, [device_serial |-> test_serial_number]),
                            testStep, "passed", FALSE)
    /\ testStep' = "DPS Request"
    /\ UNCHANGED sent
    /\ UNCHANGED otherThanTest

\* Step 3: the DPS response verifies, or it does not, or a call raises.
StepDpsRequest ==
    /\ testStep = "DPS Request"
    /\ \E status \in {"passed", "failed"} :
         state' = record_step(state, testStep, status, status = "failed")
    /\ testStep' = "TMS Portal Login"
    /\ UNCHANGED sent
    /\ UNCHANGED otherThanTest

\* Step 4: TMSPage.login() returns or raises; the handler's screenshot can
\* raise and end the test.
StepTmsLogin ==
    /\ testStep = "TMS Portal Login"
    /\ \E raises \in BOOLEAN, shotRaises \in BOOLEAN :
         /\ state' = IF raises /\ shotRaises THEN state
                     ELSE record_step(state, testStep,
                                      IF raises THEN "failed" ELSE "passed", raises)
         /\ testStep' = IF raises /\ shotRaises THEN "aborted" ELSE "Merchant Creation"
    /\ UNCHANGED sent
    /\ UNCHANGED otherThanTest

\* Step 5: skipped after a failed TMS login; else add_merchant reports
\* success and the merchant data are stored, or it reports none or raises.
StepMerchantCreation ==
    /\ testStep = "Merchant Creation"
    /\ LET none == [merchant_code |-> PyNone, merchant_id |-> PyNone]
       IN  IF get_step_status("TMS Portal Login") = "failed"
           THEN /\ state' = SetContext(record_step(state, testStep, "skipped", TRUE), none)
                /\ testStep' = "IPN Sync"
           ELSE \E success \in BOOLEAN, shotRaises \in BOOLEAN :
                  /\ state' =
                       IF success
                       THEN record_step(
                                SetContext(state, [merchant_code |-> PyStr(<<"M", "1">>),
                                                   merchant_id |-> PyStr(<<"F", "1">>)]),
                                testStep, "passed", FALSE)
                       ELSE IF shotRaises THEN state
                       ELSE SetContext(record_step(state, testStep, "failed", TRUE), none)
                  /\ testStep' = IF ~success /\ shotRaises THEN "aborted" ELSE "IPN Sync"
    /\ UNCHANGED sent
    /\ UNCHANGED otherThanTest

\* Step 6: skipped after a failed TMS login; else sync_ipn returns or raises.
StepIpnSync ==
    /\ testStep = "IPN Sync"
    /\ IF get_step_status("TMS Portal Login") = "failed"
       THEN state' = record_step(state, testStep, "skipped", TRUE)
       ELSE \E status \in {"passed", "failed"} :
              state' = record_step(state, testStep, status, status = "failed")
    /\ testStep' = "Device Assignment"
    /\ UNCHANGED sent
    /\ UNCHANGED otherThanTest

\* Step 7: skipped after a failed TMS login; else assign_ipn_to_merchant
\* reports success and the terminal data are stored, or it reports none or
\* raises.
StepDeviceAssignment ==
    /\ testStep = "Device Assignment"
    /\ LET none == [terminal_id |-> PyNone, store_id |-> PyNone,
                    fonepay_terminal_id |-> PyNone]
       IN  IF get_step_status("TMS Portal Login") = "failed"
           THEN /\ state' = SetContext(record_step(state, testStep, "skipped", TRUE), none)
                /\ testStep' = "Transaction Notifications"
           ELSE \E success \in BOOLEAN, shotRaises \in BOOLEAN :
                  /\ state' =
                       IF success
                       THEN record_step(
                                SetContext(state, [terminal_id |-> PyStr(<<"T", "1">>),
                                                   store_id |-> PyStr(<<"S", "1">>),
                                                   fonepay_terminal_id |-> PyStr(<<"F", "2">>),
                                                   fonepay_pan |-> PyStr(<<"4">>)]),
                                testStep, "passed", FALSE)
                       ELSE IF shotRaises THEN state
                       ELSE SetContext(record_step(state, testStep, "failed", TRUE), none)
                  /\ testStep' = IF ~success /\ shotRaises THEN "aborted"
                                 ELSE "Transaction Notifications"
    /\ UNCHANGED sent
    /\ UNCHANGED otherThanTest

\* Step 8: with data missing the step fails before any request; else the
\* NCHL and the Fonepay transaction are sent, each delivered or not, and the
\* step passes if one was delivered.
StepTransactionNotifications ==
    /\ testStep = "Transaction Notifications"
    /\ IF MissingData(state.context) # {}
       THEN /\ state' = record_step(state, testStep, "failed", TRUE)
            /\ UNCHANGED sent
       ELSE \E nchl_success \in BOOLEAN, fonepay_success \in BOOLEAN :
              /\ sent' = sent \o <<"nchl", "fonepay">>
              /\ state' =
                   LET responses ==
                           Update(IF nchl_success
                                  THEN [nchl_response |-> PyStr(expected_message)]
                                  ELSE <<>>,
                                  IF fonepay_success
                                  THEN [fonepay_response |-> PyStr(expected_message)]
                                  ELSE <<>>)
                   IN  record_step(SetContext(state, responses), testStep,
                                   IF nchl_success \/ fonepay_success THEN "passed"
                                   ELSE "failed",
                                   ~(nchl_success \/ fonepay_success))
    /\ testStep' = "MongoDB Verification"
    /\ UNCHANGED otherThanTest

\* Step 9: skipped without MONGO_URI; else something is found in MongoDB, or
\* nothing, or a call raises. The final evaluation ends the test.
StepMongoVerification ==
    /\ testStep = "MongoDB Verification"
    /\ \E status \in {"passed", "failed", "skipped"} :
         state' = record_step(state, testStep, status, status # "passed")
    /\ testStep' = "finished"
    /\ UNCHANGED sent
    /\ UNCHANGED otherThanTest

TestNext ==
    \/ StepAdminLogin
    \/ StepDeviceRegistration
    \/ StepDpsRequest
    \/ StepTmsLogin
    \/ StepMerchantCreation
    \/ StepIpnSync
    \/ StepDeviceAssignment
    \/ StepTransactionNotifications
    \/ StepMongoVerification

SpecTest == Init /\ [][TestNext]_vars

====
